---- MODULE Spec2Model ----
(***************************************************************************)
(* A model of the enrede crate: the Encoding trait's codecs (validate,     *)
(* encode_char, decode_char, char_bound, char_len), the Str<E> wrapper     *)
(* (slicing, iteration) and the recoding pipeline (Encoding::recode,       *)
(* Str::recode, Str::recode_lossy).                                         *)
(*                                                                         *)
(* Bytes are naturals 0..255, characters are Unicode scalar values          *)
(* (naturals), byte slices are sequences addressed 0-based through At.      *)
(* Option<T> is a sequence of length at most one.                           *)
(***************************************************************************)
EXTENDS Integers, Sequences, FiniteSets, TLC

\* ------------------------------------------------------------------ state

VARIABLES
  debug,      \* the build has debug assertions and overflow checks (cfg(debug_assertions))
  pc,         \* what the program has done so far
  enc,        \* E: the encoding of the input bytes
  input,      \* the byte slice handed to Str::<E>::from_bytes
  vres,       \* what E::validate(input) returned
  offset,     \* CharIndices: the iterator's offset; input[offset..] is its str
  item,       \* CharIndices: the last Some((offset, char)) returned
  range,      \* the range last passed to Str::get or used as an index
  got,        \* what Str::get / indexing returned
  ch,         \* the char handed to E::encode_char
  encoded,    \* what E::encode_char(ch) returned
  decoded,    \* what E::decode_char returned for the encoded bytes
  enc2,       \* E2: the destination encoding of a recoding call
  mode,       \* the recoding call in progress: "recode" or "recode_lossy"
  ptr,        \* Str::recode / recode_lossy: ptr is input[ptr..]
  total_len,  \* Str::recode / recode_lossy: total_len
  out,        \* Str::recode / recode_lossy: out
  ret,        \* what the recoding call returned
  bidx,       \* the index last passed to Str::is_char_boundary or Str::split_at
  bound,      \* what Str::is_char_boundary(bidx) returned
  split,      \* what Str::split_at(bidx) returned
  clen,       \* what E::char_len(ch) returned
  lossy,      \* what String::<E>::from_bytes_lossy(input) returned
  cstr,       \* what the CStr constructor returned for input
  cself,      \* the bytes of the CStr `self`, terminator included
  cother,     \* the bytes of a second CStr `other`, terminator included
  cargs,      \* the arguments of the last CStr method, in order
  cret        \* what the last CStr method returned

vars ==
  <<debug, pc, enc, input, vres, offset, item, range, got, ch, encoded, decoded,
    enc2, mode, ptr, total_len, out, ret,
    bidx, bound, split, clen, lossy, cstr, cself, cother, cargs, cret>>

\* ---------------------------------------------------------------- helpers

None == <<>>
Some(x) == <<x>>
IsSome(o) == Len(o) = 1
Unwrap(o) == o[1]

\* bytes[i] with a 0-based index
At(bytes, i) == bytes[i + 1]

\* bytes[from..to] (0-based, `to` exclusive)
Slice(bytes, from, to) == [i \in 1..(to - from) |-> bytes[from + i]]

\* bytes[from..]
SliceFrom(bytes, from) == Slice(bytes, from, Len(bytes))

\* slice.iter().position(|v| *v == c): the first 0-based index holding c
Position(tbl, c) ==
  LET hits == {i \in 1..Len(tbl) : tbl[i] = c}
  IN  IF hits = {} THEN None
      ELSE Some((CHOOSE i \in hits : \A j \in hits : i <= j) - 1)

\* slice.contains(&c)
Contains(tbl, c) == \E i \in 1..Len(tbl) : tbl[i] = c

\* a..b as a half-open range test, as Rust's (a..b).contains(&x)
InRange(x, a, b) == a <= x /\ x < b

\* ----------------------------------------------------------------- tables

\* phf map char => u8 of win.rs, listed by value: entry v+1 is the key mapped to v
ENCODE_MAP_1251 ==
  <<
    1026, 1027, 8218, 1107, 8222, 8230, 8224, 8225, 8364, 8240, 1033, 8249,
    1034, 1036, 1035, 1039, 1106, 8216, 8217, 8220, 8221, 8226, 8211, 8212,
    9242, 8482, 1113, 8250, 1114, 1116, 1115, 1119, 32, 1038, 1118, 1032,
    164, 1168, 166, 167, 1025, 169, 1028, 171, 172, 173, 174, 1031,
    176, 177, 1030, 1110, 1169, 181, 182, 183, 1105, 8470, 1108, 187,
    1112, 1029, 1109, 1111, 1040, 1041, 1042, 1043, 1044, 1045, 1046, 1047,
    1048, 1049, 1050, 1051, 1052, 1053, 1054, 1055, 1056, 1057, 1058, 1059,
    1060, 1061, 1062, 1063, 1064, 1065, 1066, 1067, 1068, 1069, 1070, 1071,
    1072, 1073, 1074, 1075, 1076, 1077, 1078, 1079, 1080, 1081, 1082, 1083,
    1084, 1085, 1086, 1087, 1088, 1089, 1090, 1091, 1092, 1093, 1094, 1095,
    1096, 1097, 1098, 1099, 1100, 1101, 1102, 1103
  >>

DECODE_MAP_1251 ==
  <<
    1026, 1027, 8218, 1107, 8222, 8230, 8224, 8225, 8364, 8240, 1033, 8249,
    1034, 1036, 1035, 1039, 1106, 8216, 8217, 8220, 8221, 8226, 8211, 8212,
    9242, 8482, 1113, 8250, 1114, 1116, 1115, 1119, 32, 1038, 1118, 1032,
    164, 1168, 166, 167, 1025, 169, 1028, 171, 172, 173, 174, 1031,
    176, 177, 1030, 1110, 1169, 181, 182, 183, 1105, 8470, 1108, 187,
    1112, 1029, 1109, 1111, 1040, 1041, 1042, 1043, 1044, 1045, 1046, 1047,
    1048, 1049, 1050, 1051, 1052, 1053, 1054, 1055, 1056, 1057, 1058, 1059,
    1060, 1061, 1062, 1063, 1064, 1065, 1066, 1067, 1068, 1069, 1070, 1071,
    1072, 1073, 1074, 1075, 1076, 1077, 1078, 1079, 1080, 1081, 1082, 1083,
    1084, 1085, 1086, 1087, 1088, 1089, 1090, 1091, 1092, 1093, 1094, 1095,
    1096, 1097, 1098, 1099, 1100, 1101, 1102, 1103
  >>

DECODE_MAP_1252 ==
  <<
    8364, 129, 8218, 402, 8222, 8230, 8224, 8225, 710, 8240, 352, 8249,
    338, 141, 381, 143, 144, 8216, 8217, 8220, 8221, 8226, 8211, 8212,
    732, 8482, 353, 8250, 339, 157, 382, 376
  >>

DECODE_MAP_8859_1 ==
  <<
    32, 161, 162, 163, 164, 165, 166, 167, 168, 169, 170, 171,
    172, 173, 174, 175, 176, 177, 178, 179, 180, 181, 182, 183,
    184, 185, 186, 187, 188, 189, 190, 191, 192, 193, 194, 195,
    196, 197, 198, 199, 200, 201, 202, 203, 204, 205, 206, 207,
    208, 209, 210, 211, 212, 213, 214, 215, 216, 217, 218, 219,
    220, 221, 222, 223, 224, 225, 226, 227, 228, 229, 230, 231,
    232, 233, 234, 235, 236, 237, 238, 239, 240, 241, 242, 243,
    244, 245, 246, 247, 248, 249, 250, 251, 252, 253, 254, 255
  >>

DECODE_MAP_8859_2 ==
  <<
    32, 260, 728, 321, 164, 317, 346, 167, 168, 352, 350, 356,
    377, 173, 381, 379, 176, 261, 731, 322, 180, 318, 347, 711,
    184, 353, 351, 357, 378, 733, 382, 380, 340, 193, 194, 258,
    196, 313, 262, 199, 268, 201, 280, 203, 282, 205, 206, 270,
    272, 323, 327, 211, 212, 336, 214, 215, 344, 366, 218, 368,
    220, 221, 354, 223, 341, 225, 226, 259, 228, 314, 263, 231,
    269, 233, 281, 235, 283, 237, 238, 271, 273, 324, 328, 243,
    244, 337, 246, 247, 345, 367, 250, 369, 252, 253, 355, 729
  >>

DECODE_MAP_8859_3 ==
  <<
    32, 294, 728, 163, 164, 65533, 292, 167, 168, 304, 350, 286,
    308, 173, 65533, 379, 176, 295, 178, 179, 180, 181, 293, 183,
    184, 305, 351, 287, 309, 189, 65533, 380, 192, 193, 194, 65533,
    196, 266, 264, 199, 200, 201, 202, 203, 204, 205, 206, 207,
    65533, 209, 210, 211, 212, 288, 214, 215, 284, 217, 218, 219,
    220, 364, 348, 223, 224, 225, 226, 65533, 228, 267, 265, 231,
    232, 233, 234, 235, 236, 237, 238, 239, 65533, 241, 242, 243,
    244, 289, 246, 247, 285, 249, 250, 251, 252, 365, 349, 729
  >>

DECODE_MAP_8859_15 ==
  <<
    32, 161, 162, 163, 8364, 165, 352, 167, 353, 169, 170, 171,
    172, 173, 174, 175, 176, 177, 178, 179, 381, 181, 182, 183,
    382, 185, 186, 187, 338, 339, 376, 191, 192, 193, 194, 195,
    196, 197, 198, 199, 200, 201, 202, 203, 204, 205, 206, 207,
    208, 209, 210, 211, 212, 213, 214, 215, 216, 217, 218, 219,
    220, 221, 222, 223, 224, 225, 226, 227, 228, 229, 230, 231,
    232, 233, 234, 235, 236, 237, 238, 239, 240, 241, 242, 243,
    244, 245, 246, 247, 248, 249, 250, 251, 252, 253, 254, 255
  >>

DECODE_MAP_ROMAN ==
  <<
    196, 197, 199, 201, 209, 214, 220, 225, 224, 226, 228, 227,
    229, 231, 233, 232, 234, 235, 237, 236, 238, 239, 241, 243,
    242, 244, 246, 245, 250, 249, 251, 252, 8224, 176, 162, 163,
    167, 8226, 182, 223, 174, 169, 8482, 180, 168, 8800, 198, 216,
    8734, 177, 8804, 8805, 165, 181, 8706, 8721, 8719, 960, 8747, 170,
    186, 937, 230, 248, 191, 161, 172, 8730, 402, 8776, 8710, 171,
    187, 8230, 160, 192, 195, 213, 338, 339, 8211, 8212, 8220, 8221,
    8216, 8217, 247, 9674, 255, 376, 8260, 8364, 8249, 8250, 64257, 64258,
    8225, 183, 8218, 8222, 8240, 194, 202, 193, 203, 200, 205, 206,
    207, 204, 211, 212, 63743, 210, 218, 219, 217, 305, 710, 732,
    175, 728, 729, 730, 184, 733, 731, 711
  >>

DECODE_MAP_0201 ==
  <<
    65377, 65378, 65379, 65380, 65381, 65382, 65383, 65384, 65385, 65386, 65387, 65388,
    65389, 65390, 65391, 65392, 65393, 65394, 65395, 65396, 65397, 65398, 65399, 65400,
    65401, 65402, 65403, 65404, 65405, 65406, 65407, 65408, 65409, 65410, 65411, 65412,
    65413, 65414, 65415, 65416, 65417, 65418, 65419, 65420, 65421, 65422, 65423, 65424,
    65425, 65426, 65427, 65428, 65429, 65430, 65431, 65432, 65433, 65434, 65435, 65436,
    65437, 65438, 65439
  >>

\* x0208_tables::DECODE_MAP_0208 is a 94 x 94 table of char; the file that
\* defines it is not part of the sources.  The cells below are the ones the
\* tests of jis.rs pin down (bytes 0x25 0x4F decode to U+30CF, ...); every other
\* cell is taken to hold the no-mapping marker U+FFFD.
X0208_CELLS ==
  { <<4, 46, \h30CF>>, <<4, 76, \h30ED>>, <<0, 27, \h30FC>>, <<4, 78, \h30EF>>,
    <<4, 74, \h30EB>>, <<4, 40, \h30C9>>, <<0, 78, \hA5>>, <<2, 77, \h6E>>,
    <<3, 0, \h3041>> }

\* DECODE_MAP_0208[row][col], for indices inside the table
DECODE_MAP_0208(row, col) ==
  IF \E cell \in X0208_CELLS : cell[1] = row /\ cell[2] = col
  THEN (CHOOSE cell \in X0208_CELLS : cell[1] = row /\ cell[2] = col)[3]
  ELSE \hFFFD

\* ENCODE_MAP_0208.binary_search_by(|(c2, _)| c2.cmp(&c)): Some(<<row, col>>)
ENCODE_MAP_0208(c) ==
  IF \E cell \in X0208_CELLS : cell[3] = c
  THEN LET cell == CHOOSE x \in X0208_CELLS : x[3] = c IN Some(<<cell[1], cell[2]>>)
  ELSE None

\* DECODE_MAP_0208.iter().any(|row| row.iter().any(|v| *v == c))
X0208_any(c) == c = \hFFFD \/ \E cell \in X0208_CELLS : cell[3] = c

\* ------------------------------------------------------- validation results

\* Ok(())
ValidOk == [ok |-> TRUE, valid_up_to |-> 0, error_len |-> None]

\* Err(ValidateError { valid_up_to, error_len })
ValidateError(valid_up_to, error_len) ==
  [ok |-> FALSE, valid_up_to |-> valid_up_to, error_len |-> error_len]

\* bytes.iter().enumerate().try_for_each(..), Bad being the set of bytes the
\* closure refuses: the first of them ends the scan with valid_up_to = its index and error_len = Some(1)
TryForEach(bytes, Bad) ==
  LET bad == {i \in 0..(Len(bytes) - 1) : At(bytes, i) \in Bad}
  IN  IF bad = {} THEN ValidOk
      ELSE ValidateError(CHOOSE i \in bad : \A j \in bad : i <= j, Some(1))

\* ------------------------------------------------------------ validate

Ascii_validate(bytes) == TryForEach(bytes, {c \in 0..255 : c > 127})

ExtendedAscii_validate(bytes) == ValidOk

Win1251_validate(bytes) == TryForEach(bytes, {b \in 0..255 : b = \h98})

Win1252_validate(bytes) ==
  TryForEach(bytes, {b \in 0..255 : b \in {\h81, \h8D, \h8F, \h90, \h9D}})

Win1252Loose_validate(bytes) == ValidOk

\* the validate of Iso8859_1, Iso8859_2 and Iso8859_15, which is the same code
Iso8859_validate(bytes) ==
  TryForEach(bytes, {c \in 0..255 : ~(InRange(c, \h20, \h7F) \/ c >= \hA0)})

Iso8859_3_validate(bytes) ==
  TryForEach(bytes, {c \in 0..255 : ~(InRange(c, \h20, \h7F)
      \/ (c >= \hA0 /\ c \notin {\hA5, \hAE, \hBE, \hC3, \hD0, \hE3, \hF0}))})

MacRoman_validate(bytes) == ValidOk

JisX0201_validate(bytes) ==
  TryForEach(bytes, {c \in 0..255 : c < \h20 \/ InRange(c, \h80, \hA1) \/ c >= \hE0})

\* the scan of JisX0208::validate from byte idx on, `row` being the pending
\* lead byte's row (0: none pending)
RECURSIVE JisX0208_scan(_, _, _)
JisX0208_scan(bytes, idx, row) ==
  IF idx = Len(bytes) THEN ValidOk
  ELSE LET b == At(bytes, idx) IN
    IF b >= \h80 THEN ValidateError(idx, Some(1))
    ELSE IF row = 0 THEN
      IF (InRange(b, \h29, \h30) /\ b # \h2D) \/ InRange(b, \h75, \h7F)
      THEN ValidateError(idx, Some(2))
      ELSE IF InRange(b, \h21, \h7F) THEN JisX0208_scan(bytes, idx + 1, b - \h20)
      ELSE JisX0208_scan(bytes, idx + 1, 0)
    ELSE
      IF ~InRange(b, \h21, \h7F) \/ DECODE_MAP_0208(row - 1, b - \h21) = \hFFFD
      THEN ValidateError(idx - 1, Some(2))
      ELSE JisX0208_scan(bytes, idx + 1, 0)

JisX0208_validate(bytes) == JisX0208_scan(bytes, 0, 0)

\* the value ShiftJIS::validate keeps in `row` for the lead byte b
ShiftJIS_lead_row(b) == IF InRange(b, \h81, \hA0) THEN b - \h80 ELSE b - \hC1

\* the bytes ShiftJIS::validate takes as second byte of a character
ShiftJIS_trail_known(b) ==
  InRange(b, \h9F, \hFD) \/ InRange(b, \h40, \h7F) \/ InRange(b, \h80, \h9F)

\* <<row, column>> of the cell of DECODE_MAP_0208 that ShiftJIS::validate
\* inspects for the second byte b, `row` being what it kept for the lead byte
ShiftJIS_validate_cell(row, b) ==
  <<IF InRange(b, \h9F, \hFD) THEN (row - 1) * 2 + 1 ELSE (row - 1) * 2,
    IF InRange(b, \h9F, \hFD) THEN b - \h9F
    ELSE IF InRange(b, \h40, \h7F) THEN b - \h40
    ELSE b - \h41>>

\* the scan of ShiftJIS::validate; `row` is the pending lead byte's value
RECURSIVE ShiftJIS_scan(_, _, _)
ShiftJIS_scan(bytes, idx, row) ==
  IF idx = Len(bytes) THEN ValidOk
  ELSE LET b == At(bytes, idx) IN
    IF row = 0 THEN
      IF InRange(b, 0, \h80) \/ InRange(b, \hA1, \hE0) THEN ShiftJIS_scan(bytes, idx + 1, 0)
      ELSE IF InRange(b, \h81, \hA0) \/ InRange(b, \hE0, \hF0)
        THEN ShiftJIS_scan(bytes, idx + 1, ShiftJIS_lead_row(b))
      ELSE ValidateError(idx, Some(1))
    ELSE
      IF ~ShiftJIS_trail_known(b) THEN ValidateError(idx - 1, Some(2))
      ELSE IF DECODE_MAP_0208(ShiftJIS_validate_cell(row, b)[1],
                              ShiftJIS_validate_cell(row, b)[2]) = \hFFFD
        THEN ValidateError(idx - 1, Some(2))
      ELSE ShiftJIS_scan(bytes, idx + 1, 0)

ShiftJIS_validate(bytes) == ShiftJIS_scan(bytes, 0, 0)

\* core::str::from_utf8, as Utf8::validate maps its error: valid_up_to is the
\* start of the first ill-formed sequence, error_len is None when the input ends
\* inside a sequence and Some(1..3) otherwise
Utf8_cont(b) == InRange(b, \h80, \hC0)

Utf8_width(first) ==
  IF InRange(first, \hC2, \hE0) THEN 2
  ELSE IF InRange(first, \hE0, \hF0) THEN 3
  ELSE IF InRange(first, \hF0, \hF5) THEN 4
  ELSE 0

\* the second byte of a 3- or 4-byte sequence, by its first byte
Utf8_second_ok(first, next) ==
  \/ first = \hE0 /\ InRange(next, \hA0, \hC0)
  \/ InRange(first, \hE1, \hED) /\ InRange(next, \h80, \hC0)
  \/ first = \hED /\ InRange(next, \h80, \hA0)
  \/ InRange(first, \hEE, \hF0) /\ InRange(next, \h80, \hC0)
  \/ first = \hF0 /\ InRange(next, \h90, \hC0)
  \/ InRange(first, \hF1, \hF4) /\ InRange(next, \h80, \hC0)
  \/ first = \hF4 /\ InRange(next, \h80, \h90)

RECURSIVE Utf8_scan(_, _)
Utf8_scan(bytes, index) ==
  LET len == Len(bytes) IN
  IF index = len THEN ValidOk
  ELSE LET first == At(bytes, index)
           w == Utf8_width(first)
       IN
    IF first < 128 THEN Utf8_scan(bytes, index + 1)
    ELSE IF w = 0 THEN ValidateError(index, Some(1))
    ELSE IF index + 1 >= len THEN ValidateError(index, None)
    ELSE IF w = 2 THEN
      IF ~Utf8_cont(At(bytes, index + 1)) THEN ValidateError(index, Some(1))
      ELSE Utf8_scan(bytes, index + 2)
    ELSE IF ~Utf8_second_ok(first, At(bytes, index + 1)) THEN ValidateError(index, Some(1))
    ELSE IF index + 2 >= len THEN ValidateError(index, None)
    ELSE IF ~Utf8_cont(At(bytes, index + 2)) THEN ValidateError(index, Some(2))
    ELSE IF w = 3 THEN Utf8_scan(bytes, index + 3)
    ELSE IF index + 3 >= len THEN ValidateError(index, None)
    ELSE IF ~Utf8_cont(At(bytes, index + 3)) THEN ValidateError(index, Some(3))
    ELSE Utf8_scan(bytes, index + 4)

Utf8_validate(bytes) == Utf8_scan(bytes, 0)

\* Kind::of
Kind_of(c) ==
  IF c <= \hD7FF THEN "Char"
  ELSE IF c <= \hDBFF THEN "High"
  ELSE IF c <= \hDFFF THEN "Low"
  ELSE "Char"

\* u16::from_le_bytes / u16::from_be_bytes of the unit at byte offset i
U16_from(bytes, i, le) ==
  IF le THEN At(bytes, i) + 256 * At(bytes, i + 1)
  ELSE 256 * At(bytes, i) + At(bytes, i + 1)

\* the `for (idx, chunk) in chunks.enumerate()` loop of utf16_impl::validate and
\* what follows it; `error` is the odd-trailing-byte error computed before the loop
RECURSIVE Utf16_scan(_, _, _, _, _)
Utf16_scan(bytes, le, idx, surrogate, error) ==
  IF idx = Len(bytes) \div 2 THEN
    IF surrogate THEN ValidateError(Len(bytes) - 2, None)
    ELSE IF IsSome(error) THEN Unwrap(error)
    ELSE ValidOk
  ELSE LET kind == Kind_of(U16_from(bytes, 2 * idx, le)) IN
    IF ~surrogate /\ kind = "High" THEN Utf16_scan(bytes, le, idx + 1, TRUE, error)
    ELSE IF surrogate /\ kind = "Low" THEN Utf16_scan(bytes, le, idx + 1, FALSE, error)
    ELSE IF surrogate \/ kind # "Char" THEN
      LET err_len == IF surrogate /\ kind # "Char" THEN 4 ELSE 2
          at == IF surrogate THEN idx - 1 ELSE idx
      IN  ValidateError(at * 2, Some(err_len))
    ELSE Utf16_scan(bytes, le, idx + 1, surrogate, error)

Utf16_validate(bytes, le) ==
  LET error == IF Len(bytes) % 2 = 1
               THEN Some(ValidateError(Len(bytes) - 1, None))
               ELSE None
  IN  Utf16_scan(bytes, le, 0, FALSE, error)

\* u32::from_le_bytes / u32::from_be_bytes of the four bytes at offset i.  A
\* value of 2^31 or more stands as u32_HIGH: all the code asks of it is whether
\* it is below 0x110000.
u32_HIGH == 2147483647

U32_from(bytes, i, le) ==
  LET b0 == IF le THEN At(bytes, i) ELSE At(bytes, i + 3)
      b1 == IF le THEN At(bytes, i + 1) ELSE At(bytes, i + 2)
      b2 == IF le THEN At(bytes, i + 2) ELSE At(bytes, i + 1)
      b3 == IF le THEN At(bytes, i + 3) ELSE At(bytes, i)
  IN  IF b3 >= 128 THEN u32_HIGH
      ELSE b0 + 256 * b1 + 65536 * b2 + 16777216 * b3

\* a scan of utf32_impl::validate that tests the ceiling only, not the
\* surrogate range
RECURSIVE Utf32_scan_ceiling_only(_, _, _)
Utf32_scan_ceiling_only(bytes, le, idx) ==
  IF idx * 4 >= Len(bytes) THEN ValidOk
  ELSE IF Len(bytes) - idx * 4 < 4 THEN ValidateError(idx * 4, None)
  ELSE IF U32_from(bytes, idx * 4, le) >= \h110000 THEN ValidateError(idx * 4, Some(4))
  ELSE Utf32_scan_ceiling_only(bytes, le, idx + 1)

RECURSIVE Utf32_scan(_, _, _)
Utf32_scan(bytes, le, idx) ==
  IF idx * 4 >= Len(bytes) THEN ValidOk
  ELSE IF Len(bytes) - idx * 4 < 4 THEN ValidateError(idx * 4, None)
  ELSE LET c == U32_from(bytes, idx * 4, le) IN
    IF InRange(c, \hD800, \hE000) \/ c >= \h110000 THEN ValidateError(idx * 4, Some(4))
    ELSE Utf32_scan(bytes, le, idx + 1)

Utf32_validate(bytes, le) == Utf32_scan(bytes, le, 0)

\* E::validate(bytes)
Validate(E, bytes) ==
  CASE E = "Utf8" -> Utf8_validate(bytes)
    [] E = "Utf16LE" -> Utf16_validate(bytes, TRUE)
    [] E = "Utf16BE" -> Utf16_validate(bytes, FALSE)
    [] E = "Utf32LE" -> Utf32_validate(bytes, TRUE)
    [] E = "Utf32BE" -> Utf32_validate(bytes, FALSE)
    [] E = "Ascii" -> Ascii_validate(bytes)
    [] E = "ExtendedAscii" -> ExtendedAscii_validate(bytes)
    [] E = "Win1251" -> Win1251_validate(bytes)
    [] E = "Win1252" -> Win1252_validate(bytes)
    [] E = "Win1252Loose" -> Win1252Loose_validate(bytes)
    [] E = "Iso8859_1" -> Iso8859_validate(bytes)
    [] E = "Iso8859_2" -> Iso8859_validate(bytes)
    [] E = "Iso8859_3" -> Iso8859_3_validate(bytes)
    [] E = "Iso8859_15" -> Iso8859_validate(bytes)
    [] E = "MacRoman" -> MacRoman_validate(bytes)
    [] E = "JisX0201" -> JisX0201_validate(bytes)
    [] E = "JisX0208" -> JisX0208_validate(bytes)
    [] E = "ShiftJIS" -> ShiftJIS_validate(bytes)

\* --------------------------------------------------------- encode_char

\* Option<u8>::map(|b| [b]) : the ArrayLike::slice view of a one-byte encoding
OneByte(o) == IF IsSome(o) THEN Some(<<Unwrap(o)>>) ELSE None

\* char::encode_utf8
Utf8_encode_char(c) ==
  Some(IF c < \h80 THEN <<c>>
       ELSE IF c < \h800 THEN <<\hC0 + (c \div 64), \h80 + (c % 64)>>
       ELSE IF c < \h10000
         THEN <<\hE0 + (c \div 4096), \h80 + ((c \div 64) % 64), \h80 + (c % 64)>>
       ELSE <<\hF0 + (c \div 262144), \h80 + ((c \div 4096) % 64),
              \h80 + ((c \div 64) % 64), \h80 + (c % 64)>>)

\* u16::to_le_bytes / u16::to_be_bytes
U16_to(u, le) == IF le THEN <<u % 256, u \div 256>> ELSE <<u \div 256, u % 256>>

\* char::encode_utf16, then each unit's bytes
Utf16_encode_char(c, le) ==
  Some(IF c < \h10000 THEN U16_to(c, le)
       ELSE U16_to(\hD800 + ((c - \h10000) \div 1024), le)
            \o U16_to(\hDC00 + ((c - \h10000) % 1024), le))

\* u32::to_le_bytes / u32::to_be_bytes
Utf32_encode_char(c, le) ==
  Some(IF le THEN <<c % 256, (c \div 256) % 256, (c \div 65536) % 256, c \div 16777216>>
       ELSE <<c \div 16777216, (c \div 65536) % 256, (c \div 256) % 256, c % 256>>)

\* an encode_char of Ascii that casts without the range test: `c as u8`
Ascii_encode_char_truncating(c) == Some(<<c % 256>>)

Ascii_encode_char(c) == IF c > 127 THEN None ELSE Some(<<c>>)

ExtendedAscii_encode_char(c) == IF c < 256 THEN Some(<<c>>) ELSE None

Win1251_encode_char(c) ==
  IF c < \h80 THEN Some(<<c>>)
  ELSE LET b == Position(ENCODE_MAP_1251, c)
       IN  IF IsSome(b) THEN Some(<<Unwrap(b) + \h80>>) ELSE None

Win1252_encode_char(c) ==
  IF c < \h80 \/ InRange(c, \hA0, \h100) THEN Some(<<c>>)
  ELSE LET pos == Position(DECODE_MAP_1252, c)
       IN  IF IsSome(pos) THEN Some(<<Unwrap(pos) + \h80>>) ELSE None

Win1252Loose_encode_char(c) ==
  IF c < \h80 \/ InRange(c, \hA0, \h100) THEN Some(<<c>>)
  ELSE LET pos == Position(DECODE_MAP_1252, c)
       IN  IF IsSome(pos) THEN Some(<<Unwrap(pos) + \h80>>) ELSE None

\* the encode_char shared by the four ISO/IEC 8859 codecs, by decode table
Iso8859_encode(tbl, c) ==
  IF InRange(c, \h20, \h7F) THEN Some(<<c>>)
  ELSE LET pos == Position(tbl, c)
       IN  IF IsSome(pos) THEN Some(<<Unwrap(pos) + \hA0>>) ELSE None

MacRoman_encode_char(c) ==
  IF c < \h80 THEN Some(<<c>>)
  ELSE LET pos == Position(DECODE_MAP_ROMAN, c)
       IN  IF IsSome(pos) THEN Some(<<Unwrap(pos) + \h80>>) ELSE None

\* Option<u8>
JisX0201_encode_byte(c) ==
  IF c = \hA5 THEN Some(\h5C)
  ELSE IF c = \h203E THEN Some(\h7E)
  ELSE IF InRange(c, \h20, \h80) THEN Some(c)
  ELSE LET pos == Position(DECODE_MAP_0201, c)
       IN  IF IsSome(pos) THEN Some(Unwrap(pos) + \hA1) ELSE None

JisX0201_encode_char(c) == OneByte(JisX0201_encode_byte(c))

JisX0208_encode_char(c) ==
  IF c <= \h20 \/ c = \h7F THEN Some(<<c>>)
  ELSE LET idx == ENCODE_MAP_0208(c)
       IN  IF IsSome(idx)
           THEN Some(<<Unwrap(idx)[1] + \h21, Unwrap(idx)[2] + \h21>>)
           ELSE None

\* a row/column arithmetic of ShiftJIS::encode_char without the step over 0x7F
ShiftJIS_encode_cell_no_gap(row0, col) ==
  <<IF row0 + \h21 <= \h5E THEN ((row0 + \h21 + 1) \div 2) + 112
    ELSE ((row0 + \h21 + 1) \div 2) + 176,
    IF (row0 + \h21) % 2 = 0 THEN col + 159 ELSE col + 64>>

\* <<row_e, col_e>> of ShiftJIS::encode_char for the cell (row0, col) of
\* ENCODE_MAP_0208, before the casts to u8
ShiftJIS_encode_cell(row0, col) ==
  <<IF row0 + \h21 <= \h5E THEN ((row0 + \h21 + 1) \div 2) + 112
    ELSE ((row0 + \h21 + 1) \div 2) + 176,
    IF (row0 + \h21) % 2 = 0 THEN col + 159 ELSE col + 64 + (col \div 63)>>

\* [row_e as u8, col_e as u8]
ShiftJIS_cell_bytes(e) == <<e[1] % 256, e[2] % 256>>

ShiftJIS_encode_char(c) ==
  IF IsSome(JisX0201_encode_byte(c)) THEN Some(<<Unwrap(JisX0201_encode_byte(c))>>)
  ELSE LET idx == ENCODE_MAP_0208(c) IN
    IF ~IsSome(idx) THEN None
    ELSE Some(ShiftJIS_cell_bytes(ShiftJIS_encode_cell(Unwrap(idx)[1], Unwrap(idx)[2])))

\* E::encode_char(c): None, or Some of the encoded bytes
EncodeChar(E, c) ==
  CASE E = "Utf8" -> Utf8_encode_char(c)
    [] E = "Utf16LE" -> Utf16_encode_char(c, TRUE)
    [] E = "Utf16BE" -> Utf16_encode_char(c, FALSE)
    [] E = "Utf32LE" -> Utf32_encode_char(c, TRUE)
    [] E = "Utf32BE" -> Utf32_encode_char(c, FALSE)
    [] E = "Ascii" -> Ascii_encode_char(c)
    [] E = "ExtendedAscii" -> ExtendedAscii_encode_char(c)
    [] E = "Win1251" -> Win1251_encode_char(c)
    [] E = "Win1252" -> Win1252_encode_char(c)
    [] E = "Win1252Loose" -> Win1252Loose_encode_char(c)
    [] E = "Iso8859_1" -> Iso8859_encode(DECODE_MAP_8859_1, c)
    [] E = "Iso8859_2" -> Iso8859_encode(DECODE_MAP_8859_2, c)
    [] E = "Iso8859_3" -> Iso8859_encode(DECODE_MAP_8859_3, c)
    [] E = "Iso8859_15" -> Iso8859_encode(DECODE_MAP_8859_15, c)
    [] E = "MacRoman" -> MacRoman_encode_char(c)
    [] E = "JisX0201" -> JisX0201_encode_char(c)
    [] E = "JisX0208" -> JisX0208_encode_char(c)
    [] E = "ShiftJIS" -> ShiftJIS_encode_char(c)

\* ------------------------------------------------------------ char_len

\* char::len_utf8
Utf8_char_len(c) ==
  IF c < \h80 THEN 1 ELSE IF c < \h800 THEN 2 ELSE IF c < \h10000 THEN 3 ELSE 4

\* char::len_utf16: the number of 16-bit units
Utf16_char_len(c) == IF c < \h10000 THEN 1 ELSE 2

Utf32_char_len(c) == 4

Ascii_char_len(c) == IF c < 128 THEN 1 ELSE 0

ExtendedAscii_char_len(c) == IF c < 256 THEN 1 ELSE 0

Win1251_char_len(c) == IF c < \h80 \/ Contains(DECODE_MAP_1251, c) THEN 1 ELSE 0

Win1252_char_len(c) == IF c < \h80 \/ Contains(DECODE_MAP_1252, c) THEN 1 ELSE 0

Win1252Loose_char_len(c) == IF c > 255 THEN 0 ELSE 1

\* the char_len shared by the four ISO/IEC 8859 codecs, by decode table
Iso8859_len(tbl, c) == IF InRange(c, \h20, \h7F) \/ Contains(tbl, c) THEN 1 ELSE 0

MacRoman_char_len(c) == IF c < \h80 \/ Contains(DECODE_MAP_ROMAN, c) THEN 1 ELSE 0

JisX0201_char_len(c) ==
  IF InRange(c, \h20, \h80) \/ Contains(DECODE_MAP_0201, c) THEN 1 ELSE 0

JisX0208_char_len(c) ==
  IF c < \h21 \/ c = \h7F THEN 1 ELSE IF X0208_any(c) THEN 2 ELSE 0

ShiftJIS_char_len(c) ==
  IF c < \h80 \/ Contains(DECODE_MAP_0201, c) THEN 1 ELSE IF X0208_any(c) THEN 2 ELSE 0

\* E::char_len(c)
CharLen(E, c) ==
  CASE E = "Utf8" -> Utf8_char_len(c)
    [] E \in {"Utf16LE", "Utf16BE"} -> Utf16_char_len(c)
    [] E \in {"Utf32LE", "Utf32BE"} -> Utf32_char_len(c)
    [] E = "Ascii" -> Ascii_char_len(c)
    [] E = "ExtendedAscii" -> ExtendedAscii_char_len(c)
    [] E = "Win1251" -> Win1251_char_len(c)
    [] E = "Win1252" -> Win1252_char_len(c)
    [] E = "Win1252Loose" -> Win1252Loose_char_len(c)
    [] E = "Iso8859_1" -> Iso8859_len(DECODE_MAP_8859_1, c)
    [] E = "Iso8859_2" -> Iso8859_len(DECODE_MAP_8859_2, c)
    [] E = "Iso8859_3" -> Iso8859_len(DECODE_MAP_8859_3, c)
    [] E = "Iso8859_15" -> Iso8859_len(DECODE_MAP_8859_15, c)
    [] E = "MacRoman" -> MacRoman_char_len(c)
    [] E = "JisX0201" -> JisX0201_char_len(c)
    [] E = "JisX0208" -> JisX0208_char_len(c)
    [] E = "ShiftJIS" -> ShiftJIS_char_len(c)

\* E::REPLACEMENT
Replacement(E) ==
  CASE E \in {"Utf8", "Utf16LE", "Utf16BE", "Utf32LE", "Utf32BE"} -> \hFFFD
    [] E \in {"Ascii", "ExtendedAscii", "Win1251", "Win1252", "Win1252Loose"} -> \h1A
    [] E \in {"Iso8859_1", "Iso8859_2", "Iso8859_3", "Iso8859_15", "MacRoman",
              "JisX0201", "JisX0208", "ShiftJIS"} -> \h3F

\* --------------------------------------------------------- decode_char
\* decode_char(str) returns (char, rest of str).  Here: c the character, used the
\* number of bytes in front of the rest, panic when the call panics instead (an
\* index past the end of the slice or of a table).

Decoded(c, used) == [panic |-> FALSE, c |-> c, used |-> used]
DecodePanic == [panic |-> TRUE, c |-> 0, used |-> 0]

\* x0208_tables::DECODE_MAP_0208[row][col], panicking outside the table
X0208_lookup(row, col, used) ==
  IF row \in 0..93 /\ col \in 0..93 THEN Decoded(DECODE_MAP_0208(row, col), used)
  ELSE DecodePanic

JisX0208_decode_char(str) ==
  IF Len(str) = 0 THEN DecodePanic
  ELSE LET first == At(str, 0) IN
    IF first < \h21 \/ first = \h7F THEN Decoded(first, 1)
    ELSE IF Len(str) < 2 THEN DecodePanic
    ELSE X0208_lookup(first - \h21, At(str, 1) - \h21, 2)

\* <<row, col>> of the cell of DECODE_MAP_0208 that ShiftJIS::decode_char reads
\* for the bytes first and second
ShiftJIS_decode_cell(first, second) ==
  <<IF InRange(second, \h40, \h7F) \/ InRange(second, \h80, \h9F)
    THEN (IF InRange(first, \h81, \hA0) THEN first - \h81 ELSE first - \hC1) * 2
    ELSE (IF InRange(first, \h81, \hA0) THEN first - \h81 ELSE first - \hC1) * 2 + 1,
    IF InRange(second, \h40, \h7F) THEN second - \h40
    ELSE IF InRange(second, \h80, \h9F) THEN second - \h41
    ELSE second - \h9F>>

ShiftJIS_decode_char(str) ==
  IF Len(str) = 0 THEN DecodePanic
  ELSE LET first == At(str, 0) IN
    IF first < \h80 \/ InRange(first, \hA1, \hE0) THEN
      Decoded(IF first = \h5C THEN \hA5
              ELSE IF first = \h7E THEN \h203E
              ELSE IF first < \h80 THEN first
              ELSE At(DECODE_MAP_0201, first - \hA1), 1)
    ELSE IF Len(str) < 2 THEN DecodePanic
    ELSE X0208_lookup(ShiftJIS_decode_cell(first, At(str, 1))[1],
                      ShiftJIS_decode_cell(first, At(str, 1))[2], 2)

\* ----------------------------------------------------------- char_bound
\* char_bound(str, idx) for idx < str.len(): v, or panic

Bound(v) == [panic |-> FALSE, v |-> v]
BoundPanic == [panic |-> TRUE, v |-> FALSE]

\* `for (idx2, _) in str.char_indices()` of the JIS char_bound functions, the
\* iterator standing at byte offset `off`; E is Self, the codec that decodes
RECURSIVE Jis_bound_loop(_, _, _, _)
Jis_bound_loop(E, str, off, idx) ==
  IF off >= Len(str) THEN Bound(FALSE)
  ELSE LET d == IF E = "JisX0208" THEN JisX0208_decode_char(SliceFrom(str, off))
                ELSE ShiftJIS_decode_char(SliceFrom(str, off)) IN
    IF d.panic THEN BoundPanic
    ELSE IF idx = off THEN Bound(TRUE)
    ELSE IF idx < off THEN Bound(FALSE)
    ELSE Jis_bound_loop(E, str, off + d.used, idx)

JisX0208_char_bound(str, idx) ==
  LET first == At(str, 0) IN
  IF first < \h21 \/ first = \h7F THEN Bound(TRUE)
  ELSE Jis_bound_loop("JisX0208", str, 0, idx)

ShiftJIS_char_bound(str, idx) ==
  LET first == At(str, 0) IN
  IF first < \h40 \/ first = \h7F THEN Bound(TRUE)
  ELSE Jis_bound_loop("ShiftJIS", str, 0, idx)

\* str::is_char_boundary for 0 < idx < len: the byte is not a continuation byte
Utf8_char_bound(str, idx) ==
  Bound(idx = 0 \/ At(str, idx) < \h80 \/ At(str, idx) >= \hC0)

\* idx_add is 1 for Utf16LE and 0 for Utf16BE
Utf16_char_bound(str, idx, idx_add) ==
  IF idx % 2 # 0 THEN Bound(FALSE)
  ELSE IF idx + idx_add >= Len(str) THEN BoundPanic
  ELSE Bound(~InRange(At(str, idx + idx_add), \hDC, \hE0))

Utf32_char_bound(str, idx) == Bound(idx % 4 = 0)

\* E::char_bound(str, idx), called with idx < str.len()
CharBound(E, str, idx) ==
  CASE E = "Utf8" -> Utf8_char_bound(str, idx)
    [] E = "Utf16LE" -> Utf16_char_bound(str, idx, 1)
    [] E = "Utf16BE" -> Utf16_char_bound(str, idx, 0)
    [] E \in {"Utf32LE", "Utf32BE"} -> Utf32_char_bound(str, idx)
    [] E = "JisX0208" -> JisX0208_char_bound(str, idx)
    [] E = "ShiftJIS" -> ShiftJIS_char_bound(str, idx)
    [] OTHER -> Bound(TRUE)

\* ------------------------------------------------------------------ Str
\* A Str<E> is its byte slice.  Ranges over usize are two Bounds.

Included(i) == <<"Included", i>>
Excluded(i) == <<"Excluded", i>>
Unbounded == <<"Unbounded", 0>>

\* a..b, a..=b, ..b, a.. and ..
Range(a, b) == [start |-> Included(a), end |-> Excluded(b)]
RangeInclusive(a, b) == [start |-> Included(a), end |-> Included(b)]
RangeTo(b) == [start |-> Unbounded, end |-> Excluded(b)]
RangeFrom(a) == [start |-> Included(a), end |-> Unbounded]
RangeFull == [start |-> Unbounded, end |-> Unbounded]

\* usize::MAX, the value `0 - 1` wraps to when overflow checks are off.  It is
\* only ever compared with slice lengths; the value here is the largest the
\* model checker's integers hold.
usize_MAX == 2147483647

\* Str::is_char_boundary
is_char_boundary(E, str, idx) ==
  IF idx = Len(str) THEN Bound(TRUE)
  ELSE IF idx > Len(str) THEN Bound(FALSE)
  ELSE CharBound(E, str, idx)

\* the order of the checks of Str::check_bounds: the `end - 1` that underflows,
\* then the start's boundary s, then the end's boundary e
bounds_checked(underflow, s, e) ==
  IF underflow /\ debug THEN "Panic"
  ELSE IF s.panic THEN "Panic"
  ELSE IF ~s.v THEN "None"
  ELSE IF e.panic THEN "Panic"
  ELSE IF ~e.v THEN "None"
  ELSE "Some"

\* Str::check_bounds: "Some", "None" or "Panic"
check_bounds(E, str, idx) ==
  LET start == idx.start
      end == idx.end
      start_idx == IF start[1] = "Included" THEN start[2]
                   ELSE IF start[1] = "Excluded" THEN start[2] + 1
                   ELSE 0
      underflow == end[1] = "Excluded" /\ end[2] = 0
      end_idx == IF end[1] = "Included" THEN end[2]
                 ELSE IF end[1] = "Excluded"
                      THEN (IF end[2] = 0 THEN usize_MAX ELSE end[2] - 1)
                 ELSE Len(str)
  IN  bounds_checked(underflow, is_char_boundary(E, str, start_idx),
                     is_char_boundary(E, str, end_idx))

\* <R as SliceIndex<[u8]>>::get: the half-open span <<from, to>> of the slice the
\* range selects, or None when it is out of bounds or runs backwards
slice_get(bytes, idx) ==
  LET from == IF idx.start[1] = "Included" THEN idx.start[2] ELSE 0
      to == IF idx.end[1] = "Included" THEN idx.end[2] + 1
            ELSE IF idx.end[1] = "Excluded" THEN idx.end[2]
            ELSE Len(bytes)
  IN  IF from <= to /\ to <= Len(bytes) THEN Some(<<from, to>>) ELSE None

GetSome(str) == [kind |-> "Some", str |-> str]
GetNone == [kind |-> "None", str |-> <<>>]
GetPanic == [kind |-> "Panic", str |-> <<>>]

\* Str::from_bytes_unchecked: the debug_assert! fires in builds with debug
\* assertions when the bytes do not validate
from_bytes_unchecked(E, bytes) ==
  IF debug /\ ~Validate(E, bytes).ok THEN GetPanic ELSE GetSome(bytes)

\* Str::get, cb being what check_bounds said and span what the slice's get
\* returned
get_checked(E, str, cb, span) ==
  IF cb = "Panic" THEN GetPanic
  ELSE IF cb = "None" THEN GetNone
  ELSE IF ~IsSome(span) THEN GetNone
  ELSE from_bytes_unchecked(E, Slice(str, Unwrap(span)[1], Unwrap(span)[2]))

\* Str::get
get(E, str, idx) == get_checked(E, str, check_bounds(E, str, idx), slice_get(str, idx))

\* Option::expect: panics on None
expect(g) == IF g.kind = "None" THEN GetPanic ELSE g

\* <Str<E> as Index<R>>::index: get(index).expect(..)
index(E, str, idx) == expect(get(E, str, idx))

\* Str::get_unchecked(n..), as decode_char of the JIS codecs calls it with n no
\* greater than the length
get_unchecked_from(E, str, n) == from_bytes_unchecked(E, SliceFrom(str, n))

\* (c, &str[n..]): the slice index goes through Index::index, which panics
\* where Str::get has nothing to return
DecodedIndex(E, str, c, n) ==
  IF index(E, str, RangeFrom(n)).kind = "Panic" THEN DecodePanic ELSE Decoded(c, n)

\* (TABLE[i], &str[1..]) with the table's bounds check
DecodedTable(E, str, tbl, i) ==
  IF i < 0 \/ i >= Len(tbl) THEN DecodePanic ELSE DecodedIndex(E, str, At(tbl, i), 1)

\* str.as_std().chars().next(): the scalar value of the first UTF-8 sequence
Utf8_first_char(str) ==
  LET b0 == At(str, 0)
      w == IF b0 < \h80 THEN 1 ELSE Utf8_width(b0)
      cont(i) == At(str, i) % 64
  IN  IF w = 1 THEN b0
      ELSE IF w = 2 THEN (b0 % 32) * 64 + cont(1)
      ELSE IF w = 3 THEN (b0 % 16) * 4096 + cont(1) * 64 + cont(2)
      ELSE (b0 % 8) * 262144 + cont(1) * 4096 + cont(2) * 64 + cont(3)

Utf8_decode_char(str) ==
  IF Len(str) = 0 THEN DecodePanic
  ELSE LET b0 == At(str, 0)
           w == IF b0 < \h80 THEN 1 ELSE Utf8_width(b0)
       IN  IF w = 0 \/ w > Len(str) THEN DecodePanic
           ELSE LET c == Utf8_first_char(str)
                IN  DecodedIndex("Utf8", str, c, Utf8_char_len(c))

Utf16_decode_char(E, str, le) ==
  IF Len(str) < 2 THEN DecodePanic
  ELSE LET high == U16_from(str, 0, le) IN
    IF high < \hD800 \/ high >= \hE000 THEN DecodedIndex(E, str, high, 2)
    ELSE IF Len(str) < 4 THEN DecodePanic
    ELSE LET low == U16_from(str, 2, le) IN
      IF high >= \hDC00 \/ ~InRange(low, \hDC00, \hE000) THEN DecodePanic
      ELSE DecodedIndex(E, str, (high - \hD800) * \h400 + (low - \hDC00) + \h10000, 4)

Utf32_decode_char(E, str, le) ==
  IF Len(str) < 4 THEN DecodePanic
  ELSE DecodedIndex(E, str, U32_from(str, 0, le), 4)

Ascii_decode_char(str) ==
  IF Len(str) = 0 THEN DecodePanic ELSE DecodedIndex("Ascii", str, At(str, 0), 1)

ExtendedAscii_decode_char(str) ==
  IF Len(str) = 0 THEN DecodePanic ELSE DecodedIndex("ExtendedAscii", str, At(str, 0), 1)

Win1251_decode_char(str) ==
  IF Len(str) = 0 THEN DecodePanic
  ELSE LET b == At(str, 0) IN
    IF b < \h80 THEN DecodedIndex("Win1251", str, b, 1)
    ELSE DecodedTable("Win1251", str, DECODE_MAP_1251, b - \h80)

Win1252_decode_char(str) ==
  IF Len(str) = 0 THEN DecodePanic
  ELSE LET b == At(str, 0) IN
    IF InRange(b, \h80, \hA0) THEN DecodedTable("Win1252", str, DECODE_MAP_1252, b - \h80)
    ELSE DecodedIndex("Win1252", str, b, 1)

Win1252Loose_decode_char(str) ==
  IF Len(str) = 0 THEN DecodePanic
  ELSE LET b == At(str, 0) IN
    IF InRange(b, \h80, \hA0)
    THEN DecodedTable("Win1252Loose", str, DECODE_MAP_1252, b - \h80)
    ELSE DecodedIndex("Win1252Loose", str, b, 1)

\* the decode_char shared by the four ISO-8859 codecs, each with its own table
Iso8859_decode(E, tbl, str) ==
  IF Len(str) = 0 THEN DecodePanic
  ELSE LET b == At(str, 0) IN
    IF b >= \hA0 THEN DecodedTable(E, str, tbl, b - \hA0)
    ELSE DecodedIndex(E, str, b, 1)

MacRoman_decode_char(str) ==
  IF Len(str) = 0 THEN DecodePanic
  ELSE LET b == At(str, 0) IN
    IF b < \h80 THEN DecodedIndex("MacRoman", str, b, 1)
    ELSE DecodedTable("MacRoman", str, DECODE_MAP_ROMAN, b - \h80)

JisX0201_decode_char(str) ==
  IF Len(str) = 0 THEN DecodePanic
  ELSE LET b == At(str, 0) IN
    IF b = \h5C THEN DecodedIndex("JisX0201", str, \hA5, 1)
    ELSE IF b = \h7E THEN DecodedIndex("JisX0201", str, \h203E, 1)
    ELSE IF b < \h80 THEN DecodedIndex("JisX0201", str, b, 1)
    ELSE DecodedTable("JisX0201", str, DECODE_MAP_0201, b - \hA1)

\* E::decode_char(str)
DecodeChar(E, str) ==
  CASE E = "Utf8" -> Utf8_decode_char(str)
    [] E = "Utf16LE" -> Utf16_decode_char(E, str, TRUE)
    [] E = "Utf16BE" -> Utf16_decode_char(E, str, FALSE)
    [] E = "Utf32LE" -> Utf32_decode_char(E, str, TRUE)
    [] E = "Utf32BE" -> Utf32_decode_char(E, str, FALSE)
    [] E = "Ascii" -> Ascii_decode_char(str)
    [] E = "ExtendedAscii" -> ExtendedAscii_decode_char(str)
    [] E = "Win1251" -> Win1251_decode_char(str)
    [] E = "Win1252" -> Win1252_decode_char(str)
    [] E = "Win1252Loose" -> Win1252Loose_decode_char(str)
    [] E = "Iso8859_1" -> Iso8859_decode(E, DECODE_MAP_8859_1, str)
    [] E = "Iso8859_2" -> Iso8859_decode(E, DECODE_MAP_8859_2, str)
    [] E = "Iso8859_3" -> Iso8859_decode(E, DECODE_MAP_8859_3, str)
    [] E = "Iso8859_15" -> Iso8859_decode(E, DECODE_MAP_8859_15, str)
    [] E = "MacRoman" -> MacRoman_decode_char(str)
    [] E = "JisX0201" -> JisX0201_decode_char(str)
    [] E = "JisX0208" -> JisX0208_decode_char(str)
    [] E = "ShiftJIS" -> ShiftJIS_decode_char(str)

\* ------------------------------------------------------------- recoding

\* out[pos .. pos + a.len()].copy_from_slice(a)
WriteAt(buf, pos, a) ==
  [i \in 1..Len(buf) |-> IF pos < i /\ i <= pos + Len(a) THEN a[i - pos] ELSE buf[i]]

\* vec![0; n], and Vec::resize(out.len() + n, 0)
Zeros(n) == [i \in 1..n |-> 0]
Resize(buf, n) == buf \o Zeros(n)

\* an Encoding::encode that looks at the room before it looks at the character
Encoded_room_first(a, room) ==
  IF room = 0
  THEN [kind |-> "NeedSpace", len |-> IF IsSome(a) THEN Len(Unwrap(a)) ELSE 0, a |-> <<>>]
  ELSE IF ~IsSome(a) THEN [kind |-> "InvalidChar", len |-> 0, a |-> <<>>]
  ELSE IF Len(Unwrap(a)) > room THEN [kind |-> "NeedSpace", len |-> Len(Unwrap(a)), a |-> <<>>]
  ELSE [kind |-> "Ok", len |-> Len(Unwrap(a)), a |-> Unwrap(a)]

\* what Encoding::encode makes of the Option `a` that encode_char returned, with
\* `room` bytes left in out
Encoded(a, room) ==
  IF ~IsSome(a) THEN [kind |-> "InvalidChar", len |-> 0, a |-> <<>>]
  ELSE IF Len(Unwrap(a)) > room THEN [kind |-> "NeedSpace", len |-> Len(Unwrap(a)), a |-> <<>>]
  ELSE [kind |-> "Ok", len |-> Len(Unwrap(a)), a |-> Unwrap(a)]

\* Encoding::encode(char, out) for an `out` of `room` bytes: Ok(len) with the
\* bytes written, Err(NeedSpace { len }) or Err(InvalidChar)
Encode(E, char, room) == Encoded(EncodeChar(E, char), room)

\* The try_fold of Encoding::recode::<E>(str, &mut out[base..]) for destination
\* E2, standing at byte `idx` of str with `out_pos` bytes written.  The result
\* is Ok(len), a RecodeError (input_used, output_valid, cause and, for
\* InvalidChar, char and len), or a panic of the character iterator; `out` is
\* the buffer as the call leaves it.
RECURSIVE Recode_fold(_, _, _, _, _, _, _)

\* the closure of the try_fold on the character d that char_indices() gave at
\* idx, e being what E2::encode made of it
Recode_closure(E, E2, str, idx, buf, base, out_pos, d, e) ==
  IF e.kind = "Ok"
  THEN Recode_fold(E, E2, str, idx + d.used, WriteAt(buf, base + out_pos, e.a),
                   base, out_pos + e.len)
  ELSE IF e.kind = "NeedSpace"
  THEN [kind |-> "NeedSpace", len |-> e.len, input_used |-> idx,
        output_valid |-> out_pos, char |-> 0, out |-> buf]
  ELSE [kind |-> "InvalidChar", len |-> CharLen(E, d.c), input_used |-> idx,
        output_valid |-> out_pos, char |-> d.c, out |-> buf]

\* the step of the try_fold at idx, d being what decode_char returned there
Recode_next(E, E2, str, idx, buf, base, out_pos, d) ==
  IF d.panic
  THEN [kind |-> "Panic", len |-> 0, input_used |-> idx, output_valid |-> out_pos,
        char |-> 0, out |-> buf]
  ELSE Recode_closure(E, E2, str, idx, buf, base, out_pos, d,
                      Encode(E2, d.c, Len(buf) - base - out_pos))

Recode_fold(E, E2, str, idx, buf, base, out_pos) ==
  IF idx >= Len(str)
  THEN [kind |-> "Ok", len |-> out_pos, input_used |-> idx, output_valid |-> out_pos,
        char |-> 0, out |-> buf]
  ELSE Recode_next(E, E2, str, idx, buf, base, out_pos,
                   DecodeChar(E, SliceFrom(str, idx)))

\* E2::recode(str, &mut out[base..]); slicing past the end of out panics
Recode(E, E2, str, buf, base) ==
  IF base > Len(buf)
  THEN [kind |-> "Panic", len |-> 0, input_used |-> 0, output_valid |-> 0,
        char |-> 0, out |-> buf]
  ELSE Recode_fold(E, E2, str, 0, buf, base, 0)

\* The value a recoding call returns: Ok(string), Err(..) with the error's cause,
\* valid_up_to (input_used), char and char_len and, for recode_into, the valid
\* part of the buffer; or no value because the call panicked
RetNone ==
  [kind |-> "None", bytes |-> <<>>, cause |-> "", valid_up_to |-> 0, char |-> 0,
   char_len |-> 0]
RetOk(s) ==
  [kind |-> "Ok", bytes |-> s, cause |-> "", valid_up_to |-> 0, char |-> 0, char_len |-> 0]
RetErr(s, cause, valid_up_to, char, char_len) ==
  [kind |-> "Err", bytes |-> s, cause |-> cause, valid_up_to |-> valid_up_to,
   char |-> char, char_len |-> char_len]
RetPanic ==
  [kind |-> "Panic", bytes |-> <<>>, cause |-> "", valid_up_to |-> 0, char |-> 0,
   char_len |-> 0]

\* the value of recode_into, r being what E2::recode returned and s the Str
\* made of the valid part of the buffer
recode_into_ret(r, s) ==
  IF r.kind = "Panic" \/ s.kind = "Panic" THEN RetPanic
  ELSE IF r.kind = "Ok" THEN RetOk(s.str)
  ELSE RetErr(s.str, r.kind, r.input_used, r.char, r.len)

\* the match of recode_into on r, what E2::recode returned
recode_into_match(E2, r) ==
  recode_into_ret(r, from_bytes_unchecked(E2, Slice(r.out, 0, r.output_valid)))

\* Str::recode_into::<E2>(buffer), the buffer being n zero bytes: Ok(&buffer[..len])
\* or Err carrying &buffer[..output_valid]; both go through
\* Str::from_bytes_unchecked
recode_into(E, E2, str, n) == recode_into_match(E2, Recode(E, E2, str, Zeros(n), 0))

\* ------------------------------------------------------------- split_at

\* Option<(&Str<E>, &Str<E>)>, or no value because the call panicked
SplitSome(a, b) == [kind |-> "Some", a |-> a, b |-> b]
SplitNone == [kind |-> "None", a |-> <<>>, b |-> <<>>]
SplitPanic == [kind |-> "Panic", a |-> <<>>, b |-> <<>>]

\* Some((start, end)) of the two halves Str::from_bytes_unchecked made
split_halves(start, end) ==
  IF start.kind = "Panic" \/ end.kind = "Panic" THEN SplitPanic
  ELSE SplitSome(start.str, end.str)

\* the if of Str::split_at, cb being what is_char_boundary(idx) returned
split_at_checked(E, str, i, cb) ==
  IF cb.panic THEN SplitPanic
  ELSE IF cb.v /\ i < Len(str)
  THEN split_halves(from_bytes_unchecked(E, Slice(str, 0, i)),
                    from_bytes_unchecked(E, SliceFrom(str, i)))
  ELSE SplitNone

\* Str::split_at
split_at(E, str, i) == split_at_checked(E, str, i, is_char_boundary(E, str, i))

\* --------------------------------------------------- values not yet there

\* String::from_bytes_lossy has not been called
LossyNone == [kind |-> "None", bytes |-> <<>>]

\* no CStr constructor has been called
CStrNone == [kind |-> "None", bytes |-> <<>>, idx |-> 0, err |-> ValidOk]

\* what a CStr method returned: None (also: nothing yet), Some of a CStr (get)
\* or of a Str and a CStr (split_at), () with the bytes self holds afterwards
\* (copy_from, copy_range), or no value because the call panicked
CRetNone == [kind |-> "None", str |-> <<>>, cstr |-> <<>>]
CRetSome(s, c) == [kind |-> "Some", str |-> s, cstr |-> c]
CRetUnit(c) == [kind |-> "Unit", str |-> <<>>, cstr |-> c]
CRetPanic == [kind |-> "Panic", str |-> <<>>, cstr |-> <<>>]

\* ----------------------------------------------------------------- CStr
\* A CStr<E> is its byte slice, terminator included.  It exists for the
\* encodings that implement NullTerminable.

NullTerminable ==
  { "Utf8", "Ascii", "ExtendedAscii", "Win1251", "Win1252", "Win1252Loose",
    "Iso8859_1", "Iso8859_2", "Iso8859_3", "Iso8859_15" }

\* Result<&CStr<E>, FromBytesWithNulError / FromBytesTilNulError>, or no value
\* because the call panicked
CStrOk(bytes) == [kind |-> "Ok", bytes |-> bytes, idx |-> 0, err |-> ValidOk]
CStrMissingNull == [kind |-> "MissingNull", bytes |-> <<>>, idx |-> 0, err |-> ValidOk]
CStrHasNull(i) == [kind |-> "HasNull", bytes |-> <<>>, idx |-> i, err |-> ValidOk]
CStrInvalid(e) == [kind |-> "Invalid", bytes |-> <<>>, idx |-> 0, err |-> e]
CStrPanic == [kind |-> "Panic", bytes |-> <<>>, idx |-> 0, err |-> ValidOk]

\* CStr::from_bytes_with_nul_unchecked: with debug assertions the bytes before
\* the last are validated (`bytes.len() - 1` overflowing on an empty slice) and
\* the last byte is compared with 0
from_bytes_with_nul_unchecked(E, bytes) ==
  IF debug /\ (\/ Len(bytes) = 0
               \/ ~Validate(E, Slice(bytes, 0, Len(bytes) - 1)).ok
               \/ At(bytes, Len(bytes) - 1) # 0)
  THEN CStrPanic
  ELSE CStrOk(bytes)

\* E::validate(..).map_err(Invalid)?, then the unchecked constructor on `bytes`
cstr_validated(E, bytes, v) ==
  IF ~v.ok THEN CStrInvalid(v) ELSE from_bytes_with_nul_unchecked(E, bytes)

\* a from_bytes_til_nul that validates the bytes behind the first zero as well
from_bytes_til_nul_validating_rest(E, bytes) ==
  LET nul == Position(bytes, 0) IN
  IF ~IsSome(nul) THEN CStrMissingNull
  ELSE IF ~Validate(E, SliceFrom(bytes, Unwrap(nul) + 1)).ok
    THEN CStrInvalid(Validate(E, SliceFrom(bytes, Unwrap(nul) + 1)))
  ELSE cstr_validated(E, Slice(bytes, 0, Unwrap(nul) + 1),
                      Validate(E, Slice(bytes, 0, Unwrap(nul))))

\* CStr::from_bytes_til_nul (and from_bytes_til_nul_mut, which is the same code)
from_bytes_til_nul(E, bytes) ==
  LET nul == Position(bytes, 0) IN
  IF ~IsSome(nul) THEN CStrMissingNull
  ELSE cstr_validated(E, Slice(bytes, 0, Unwrap(nul) + 1),
                      Validate(E, Slice(bytes, 0, Unwrap(nul))))

\* a from_bytes_with_nul that validates the encoding before it looks for an
\* interior zero
from_bytes_with_nul_validating_first(E, bytes) ==
  LET end_nul == IF Len(bytes) = 0 THEN FALSE ELSE At(bytes, Len(bytes) - 1) = 0
      slice == Slice(bytes, 0, Len(bytes) - 1)
      internal_nul == Position(slice, 0)
  IN  IF ~end_nul THEN CStrMissingNull
      ELSE IF ~Validate(E, slice).ok THEN CStrInvalid(Validate(E, slice))
      ELSE IF IsSome(internal_nul) THEN CStrHasNull(Unwrap(internal_nul))
      ELSE from_bytes_with_nul_unchecked(E, bytes)

\* CStr::from_bytes_with_nul (and from_bytes_with_nul_mut, which is the same code)
from_bytes_with_nul(E, bytes) ==
  LET end_nul == IF Len(bytes) = 0 THEN FALSE ELSE At(bytes, Len(bytes) - 1) = 0
      slice == Slice(bytes, 0, Len(bytes) - 1)
      internal_nul == Position(slice, 0)
  IN  IF ~end_nul THEN CStrMissingNull
      ELSE IF IsSome(internal_nul) THEN CStrHasNull(Unwrap(internal_nul))
      ELSE cstr_validated(E, bytes, Validate(E, slice))

\* CStr::as_str, which is Deref::deref: every method of Str called on a CStr
\* goes through it
as_str(E, c) ==
  IF Len(c) = 0 THEN GetPanic ELSE from_bytes_unchecked(E, Slice(c, 0, Len(c) - 1))

\* CStr::check_bounds, s being the Str the CStr derefs to: the range is idx.. or
\* .., the end is self.as_bytes().len()
cstr_check_bounds(E, s, idx) ==
  IF s.kind = "Panic" THEN "Panic"
  ELSE bounds_checked(FALSE,
         is_char_boundary(E, s.str, IF idx.start[1] = "Included" THEN idx.start[2] ELSE 0),
         is_char_boundary(E, s.str, Len(s.str)))

\* Some(CStr::from_bytes_with_nul_unchecked(..)) of CStr::get
cstr_got(r) == IF r.kind = "Panic" THEN CRetPanic ELSE CRetSome(<<>>, r.bytes)

\* CStr::get after check_bounds, which said cb; span is what
\* self.as_bytes_with_nul().get(idx) selects
cstr_get_checked(E, c, cb, span) ==
  IF cb = "Panic" THEN CRetPanic
  ELSE IF cb = "None" THEN CRetNone
  ELSE IF ~IsSome(span) THEN CRetNone
  ELSE cstr_got(from_bytes_with_nul_unchecked(E,
                  Slice(c, Unwrap(span)[1], Unwrap(span)[2])))

\* CStr::get (and get_mut, which is the same code)
cstr_get(E, c, idx) ==
  cstr_get_checked(E, c, cstr_check_bounds(E, as_str(E, c), idx), slice_get(c, idx))

\* Some((start, end)) of CStr::split_at, made by Str::from_bytes_unchecked and
\* CStr::from_bytes_with_nul_unchecked
cstr_split_halves(start, end) ==
  IF start.kind = "Panic" \/ end.kind = "Panic" THEN CRetPanic
  ELSE CRetSome(start.str, end.bytes)

\* the if of CStr::split_at, s being the Str the CStr derefs to
cstr_split_at_checked(E, c, s, i, cb) ==
  IF cb.panic THEN CRetPanic
  ELSE IF cb.v /\ i < Len(s.str)
  THEN cstr_split_halves(from_bytes_unchecked(E, Slice(c, 0, i)),
                         from_bytes_with_nul_unchecked(E, SliceFrom(c, i)))
  ELSE CRetNone

\* CStr::split_at with self derefed to s
cstr_split_at_deref(E, c, s, i) ==
  IF s.kind = "Panic" THEN CRetPanic
  ELSE cstr_split_at_checked(E, c, s, i, is_char_boundary(E, s.str, i))

\* CStr::split_at (and split_at_mut, which is the same code)
cstr_split_at(E, c, i) == cstr_split_at_deref(E, c, as_str(E, c), i)

\* dest.copy_from_slice(src) on the bytes [from, from + dest_len) of c: panics
\* unless the two slices are of one length
copy_from_slice(c, from, dest_len, src) ==
  IF dest_len # Len(src) THEN CRetPanic ELSE CRetUnit(WriteAt(c, from, src))

\* CStr::copy_from, s and o being the Strs that self and other deref to: the
\* lengths compared are Str::len, the slice written is all of self.1, the slice
\* read is other.as_bytes() of Str
copy_from_deref(c, s, o) ==
  IF s.kind = "Panic" \/ o.kind = "Panic" THEN CRetPanic
  ELSE IF Len(s.str) # Len(o.str) THEN CRetPanic
  ELSE copy_from_slice(c, 0, Len(c), o.str)

\* CStr::copy_from
copy_from(E, c, other) == copy_from_deref(c, as_str(E, c), as_str(E, other))

\* CStr::copy_range: `dest` is self.1.get_mut(src_range), `src` is
\* other.1.get(dest_range), both unwrapped
copy_range(c, other, src_range, dest_range) ==
  LET dest == slice_get(c, src_range)
      src == slice_get(other, dest_range)
  IN  IF ~IsSome(dest) \/ ~IsSome(src) THEN CRetPanic
      ELSE copy_from_slice(c, Unwrap(dest)[1], Unwrap(dest)[2] - Unwrap(dest)[1],
                           Slice(other, Unwrap(src)[1], Unwrap(src)[2]))

\* ---------------------------------------------------------------- String
\* A String<E> is its byte vector.

\* what EncodedChunks::next returns, with the `src` the iterator is left with
ChunkNone == [kind |-> "None", valid |-> <<>>, invalid |-> <<>>, src |-> <<>>]
Chunk(valid, invalid, src) ==
  [kind |-> "Some", valid |-> valid, invalid |-> invalid, src |-> src]
ChunkPanic == [kind |-> "Panic", valid |-> <<>>, invalid |-> <<>>, src |-> <<>>]

\* the Err arm of EncodedChunks::next, valid_to being err.valid_up_to() and
\* error_len err.error_len(); slicing past the end of src panics, and so does
\* the debug_assert! of Str::from_bytes_unchecked on bytes that do not validate
chunk_of_error(E, src, valid_to, error_len) ==
  IF valid_to > Len(src) THEN ChunkPanic
  ELSE IF from_bytes_unchecked(E, Slice(src, 0, valid_to)).kind = "Panic" THEN ChunkPanic
  ELSE IF ~IsSome(error_len)
    THEN Chunk(Slice(src, 0, valid_to), SliceFrom(src, valid_to), <<>>)
  ELSE IF valid_to + Unwrap(error_len) > Len(src) THEN ChunkPanic
  ELSE Chunk(Slice(src, 0, valid_to),
             Slice(src, valid_to, valid_to + Unwrap(error_len)),
             SliceFrom(src, valid_to + Unwrap(error_len)))

\* the match of EncodedChunks::next on v = Str::from_bytes(src)
chunk_match(E, src, v) ==
  IF v.ok THEN Chunk(src, <<>>, <<>>)
  ELSE chunk_of_error(E, src, v.valid_up_to, v.error_len)

\* EncodedChunks::next on an iterator whose src is src
EncodedChunks_next(E, src) ==
  IF Len(src) = 0 THEN ChunkNone ELSE chunk_match(E, src, Validate(E, src))

\* what String::from_bytes_lossy returns: Cow::Borrowed of the input's bytes,
\* Cow::Owned of a new String, or nothing because it panicked
Borrowed(bytes) == [kind |-> "Borrowed", bytes |-> bytes]
Owned(bytes) == [kind |-> "Owned", bytes |-> bytes]
LossyPanic == [kind |-> "Panic", bytes |-> <<>>]

\* String::try_push, r being E::encode_char(c): the bytes of the String
\* afterwards, or None for Err(InvalidChar)
try_push(res, r) == IF IsSome(r) THEN Some(res \o Unwrap(r)) ELSE None

\* String::push panics where try_push fails
push(E, res, c) == try_push(res, EncodeChar(E, c))

\* the `for chunk in chunks` loop of from_bytes_lossy and the return after it,
\* chunk being what the next call of next returned
RECURSIVE lossy_loop(_, _, _)
lossy_pushed(E, chunk, pushed) ==
  IF ~IsSome(pushed) THEN LossyPanic
  ELSE lossy_loop(E, Unwrap(pushed), EncodedChunks_next(E, chunk.src))

lossy_loop(E, res, chunk) ==
  IF chunk.kind = "Panic" THEN LossyPanic
  ELSE IF chunk.kind = "None" THEN Owned(res)
  ELSE IF Len(chunk.invalid) # 0
    THEN lossy_pushed(E, chunk, push(E, res \o chunk.valid, Replacement(E)))
  ELSE lossy_loop(E, res \o chunk.valid, EncodedChunks_next(E, chunk.src))

\* String::from_bytes_lossy, chunk being the first chunk
lossy_first(E, bytes, chunk) ==
  IF chunk.kind = "Panic" THEN LossyPanic
  ELSE IF chunk.kind = "None" THEN Borrowed(<<>>)
  ELSE IF Len(chunk.invalid) = 0 THEN
    IF debug /\ Len(chunk.valid) # Len(bytes) THEN LossyPanic
    ELSE Borrowed(chunk.valid)
  ELSE lossy_pushed(E, chunk, push(E, chunk.valid, Replacement(E)))

from_bytes_lossy(E, bytes) == lossy_first(E, bytes, EncodedChunks_next(E, bytes))

\* ----------------------------------------------------------------- inputs

\* the most chunks (whole characters or fragments of one) an input buffer is
\* put together from
MaxUnits == 3

\* the longest Str that Str::get and indexing are tried on, in bytes
MaxIndexLen == 6

\* recode_lossy stops being followed once `out` is longer than this
MaxOut == 12

\* the sizes of the buffer handed to recode_into run from 0 to this
MaxBuffer == 4

Encodings ==
  { "Utf8", "Utf16LE", "Utf16BE", "Utf32LE", "Utf32BE", "Ascii", "ExtendedAscii",
    "Win1251", "Win1252", "Win1252Loose", "Iso8859_1", "Iso8859_2", "Iso8859_3",
    "Iso8859_15", "MacRoman", "JisX0201", "JisX0208", "ShiftJIS" }

\* the destinations recoding is tried with
Destinations == { "Utf8", "Utf16LE", "Utf32BE", "Ascii", "Win1252", "JisX0208" }

\* The replacement character '?' of JisX0208 is looked up in the X0208 table, in
\* a cell the sources at hand do not pin down: recode_lossy is not tried with it.
LossyDestinations == Destinations \ {"JisX0208"}

\* per encoding: encoded characters, and fragments that are not characters
Units(E) ==
  CASE E = "Utf8" ->
         { <<\h41>>, <<\h62>>, <<\hC3, \hA9>>, <<\hC2, \h81>>, <<\hF0, \h90, \h90, \hB7>>,
           <<\hC3>>, <<\hE2, \h82>>, <<\h80>> }
    [] E = "Utf16LE" ->
         { <<\h41, \h00>>, <<\hE9, \h00>>, <<\h01, \hD8, \h37, \hDC>>,
           <<\h01, \hD8>>, <<\h37, \hDC>>, <<\h00>> }
    [] E = "Utf16BE" ->
         { <<\h00, \h41>>, <<\h00, \hE9>>, <<\hD8, \h01, \hDC, \h37>>,
           <<\hD8, \h01>>, <<\hDC, \h37>>, <<\h00>> }
    [] E = "Utf32LE" ->
         { <<\h41, \h00, \h00, \h00>>, <<\h37, \h04, \h01, \h00>>, <<\h00, \hD8, \h00, \h00>>,
           <<\h00, \h00, \h11, \h00>>, <<\h41, \h00>> }
    [] E = "Utf32BE" ->
         { <<\h00, \h00, \h00, \h41>>, <<\h00, \h01, \h04, \h37>>, <<\h00, \h00, \hD8, \h00>>,
           <<\h00, \h11, \h00, \h00>>, <<\h00, \h41>> }
    [] E = "Ascii" -> { <<\h41>>, <<\h1A>>, <<\h7F>>, <<\h80>>, <<\hE9>> }
    [] E = "ExtendedAscii" -> { <<\h41>>, <<\h81>>, <<\h98>>, <<\hA5>>, <<\hE9>> }
    [] E = "Win1251" -> { <<\h41>>, <<\h80>>, <<\h88>>, <<\h98>>, <<\hC0>> }
    [] E = "Win1252" -> { <<\h41>>, <<\h6E>>, <<\h80>>, <<\h81>>, <<\hA5>>, <<\hE9>> }
    [] E = "Win1252Loose" -> { <<\h41>>, <<\h80>>, <<\h81>>, <<\h9D>>, <<\hE9>> }
    [] E = "Iso8859_1" -> { <<\h41>>, <<\h1A>>, <<\h80>>, <<\hA0>>, <<\hE9>> }
    [] E = "Iso8859_2" -> { <<\h41>>, <<\h10>>, <<\h85>>, <<\hA1>>, <<\hFF>> }
    [] E = "Iso8859_3" -> { <<\h41>>, <<\h7F>>, <<\hA1>>, <<\hA5>>, <<\hE3>>, <<\hE9>> }
    [] E = "Iso8859_15" -> { <<\h41>>, <<\h0A>>, <<\h90>>, <<\hA4>>, <<\hE9>> }
    [] E = "MacRoman" -> { <<\h41>>, <<\h0A>>, <<\h80>>, <<\hDB>>, <<\hFF>> }
    [] E = "JisX0201" -> { <<\h41>>, <<\h5C>>, <<\h7E>>, <<\hB1>>, <<\h1F>>, <<\h80>> }
    [] E = "JisX0208" ->
         { <<\h0A>>, <<\h20>>, <<\h25, \h4F>>, <<\h23, \h6E>>, <<\h21, \h6F>>,
           <<\h30>>, <<\h29>>, <<\h80>> }
    [] E = "ShiftJIS" ->
         { <<\h41>>, <<\h5C>>, <<\hB1>>, <<\h83, \h6E>>, <<\h82, \h9F>>,
           <<\h81>>, <<\h80>> }

\* the buffers put together from at most n units
RECURSIVE Concats(_, _)
Concats(E, n) ==
  IF n = 0 THEN {<<>>}
  ELSE LET shorter == Concats(E, n - 1)
       IN  shorter \cup {s \o u : s \in shorter, u \in Units(E)}

Buffers(E) == Concats(E, MaxUnits)

\* the characters handed to encode_char
Chars ==
  { \h0A, \h1A, \h20, \h3F, \h41, \h5C, \h6E, \h7E, \h7F, \h80, \h81, \h98, \hA0,
    \hA5, \hE9, \hFF, \h100, \h104, \h126, \h410, \h203E, \h20AC, \h241A, \h3041,
    \h30CF, \hD7FF, \hE000, \hFF71, \hFFFD, \h10000, \h10437, \h10FFFF }

\* a.., ..b, a..b, a..=b and .. with bounds up to one past len
Ranges(len) ==
  {RangeFull}
    \cup {RangeFrom(a) : a \in 0..(len + 1)}
    \cup {RangeTo(b) : b \in 0..(len + 1)}
    \cup {Range(a, b) : a \in 0..(len + 1), b \in 0..(len + 1)}
    \cup {RangeInclusive(a, b) : a \in 0..(len + 1), b \in 0..(len + 1)}

\* the most chunks (characters, fragments, zero bytes) the input of a CStr
\* constructor is put together from
MaxCUnits == 3

\* the buffers handed to the CStr constructors: as Buffers, with zero bytes
RECURSIVE CConcats(_, _)
CConcats(E, n) ==
  IF n = 0 THEN {<<>>}
  ELSE LET shorter == CConcats(E, n - 1)
       IN  shorter \cup {s \o u : s \in shorter, u \in Units(E) \cup {<<0>>}}

CBuffers(E) == CConcats(E, MaxCUnits)

\* the most chunks the input is put together from when methods are then called
\* on the CStr, and the most chunks of the second CStr handed to them
MaxCStrUnits == 2

\* the CStrs that from_bytes_til_nul makes of the buffers of up to MaxCStrUnits
\* chunks
CStrs(E) ==
  {from_bytes_til_nul(E, b).bytes :
     b \in {x \in CConcats(E, MaxCStrUnits) : from_bytes_til_nul(E, x).kind = "Ok"}}

\* idx.. and .., the ranges a CStr is sliced with
OpenRanges(len) == {RangeFull} \cup {RangeFrom(a) : a \in 0..(len + 1)}

\* the characters handed to the null-terminable encodings: U+0000 and every
\* character up to MaxNulChar, and the rest of Chars
MaxNulChar == 767
NulChars == Chars \cup 0..MaxNulChar

\* a caller's buffer of n bytes, none of them a byte encode would leave there
\* by chance
Filled(n) == [i \in 1..n |-> \hAA]

\* the lead bytes of the two-byte characters of ShiftJIS
ShiftJIS_leads == (\h81..\h9F) \cup (\hE0..\hEF)

\* what a cell of DECODE_MAP_0208 can hold: the no-mapping marker or a
\* character
CellContents == {\hFFFD, \h3041}

\* the rows and the columns of the JIS X 0208 table
X0208_ROWS == 94
X0208_COLS == 94

\* ----------------------------------------------------------------- actions

\* the state before anything has run, apart from the input
Fresh ==
  /\ debug \in BOOLEAN
  /\ enc \in Encodings
  /\ vres = ValidOk
  /\ offset = 0
  /\ item = None
  /\ range = RangeFull
  /\ got = GetNone
  /\ encoded = None
  /\ decoded = DecodePanic
  /\ enc2 = enc
  /\ mode = "none"
  /\ ptr = 0
  /\ total_len = 0
  /\ out = <<>>
  /\ ret = RetNone
  /\ bidx = 0
  /\ bound = Bound(FALSE)
  /\ split = SplitNone
  /\ clen = 0
  /\ lossy = LossyNone
  /\ cstr = CStrNone
  /\ cself = <<>>
  /\ cother = <<>>
  /\ cargs = <<>>
  /\ cret = CRetNone

\* a byte buffer has been handed over
Init ==
  /\ Fresh
  /\ pc = "input"
  /\ input \in Buffers(enc)
  /\ ch = 0

\* a character has been handed over
InitChar ==
  /\ Fresh
  /\ pc = "char"
  /\ input = <<>>
  /\ ch \in Chars

\* Str::<E>::from_bytes(input): a Str exists from here on only if validate said Ok
from_bytes ==
  /\ pc = "input"
  /\ vres' = Validate(enc, input)
  /\ pc' = IF vres'.ok THEN "str" ELSE "invalid"
  /\ UNCHANGED <<debug, enc, input, offset, item, range, got, ch, encoded, decoded,
                 enc2, mode, ptr, total_len, out, ret>>
  /\ UNCHANGED <<bidx, bound, split, clen, lossy, cstr, cself, cother, cargs, cret>>

\* CharIndices::next on str.char_indices(), with Chars::next inside it
CharIndices_next ==
  /\ pc \in {"str", "chars", "chars_end"}
  /\ IF offset >= Len(input)
     THEN /\ pc' = "chars_end"
          /\ UNCHANGED <<offset, item>>
     ELSE \E d \in {DecodeChar(enc, SliceFrom(input, offset))} :
          IF d.panic
          THEN /\ pc' = "chars_panic"
               /\ UNCHANGED <<offset, item>>
          ELSE /\ pc' = "chars"
               /\ item' = Some(<<offset, d.c>>)
               /\ offset' = offset + d.used
  /\ UNCHANGED <<debug, enc, input, vres, range, got, ch, encoded, decoded,
                 enc2, mode, ptr, total_len, out, ret>>
  /\ UNCHANGED <<bidx, bound, split, clen, lossy, cstr, cself, cother, cargs, cret>>

\* str.get(idx)
Str_get ==
  /\ pc = "str"
  /\ Len(input) <= MaxIndexLen
  /\ \E idx \in Ranges(Len(input)) :
       /\ range' = idx
       /\ got' = get(enc, input, idx)
  /\ pc' = "get"
  /\ UNCHANGED <<debug, enc, input, vres, offset, item, ch, encoded, decoded,
                 enc2, mode, ptr, total_len, out, ret>>
  /\ UNCHANGED <<bidx, bound, split, clen, lossy, cstr, cself, cother, cargs, cret>>

\* &str[idx]
Str_index ==
  /\ pc = "str"
  /\ Len(input) <= MaxIndexLen
  /\ \E idx \in Ranges(Len(input)) :
       /\ range' = idx
       /\ got' = index(enc, input, idx)
  /\ pc' = "index"
  /\ UNCHANGED <<debug, enc, input, vres, offset, item, ch, encoded, decoded,
                 enc2, mode, ptr, total_len, out, ret>>
  /\ UNCHANGED <<bidx, bound, split, clen, lossy, cstr, cself, cother, cargs, cret>>

\* E::encode_char(ch)
encode_char ==
  /\ pc = "char"
  /\ encoded' = EncodeChar(enc, ch)
  /\ pc' = IF IsSome(encoded') THEN "encoded" ELSE "unencodable"
  /\ UNCHANGED <<debug, enc, input, vres, offset, item, range, got, ch, decoded,
                 enc2, mode, ptr, total_len, out, ret>>
  /\ UNCHANGED <<bidx, bound, split, clen, lossy, cstr, cself, cother, cargs, cret>>

\* E::decode_char on the input encode_char returned
decode_char ==
  /\ pc = "encoded"
  /\ decoded' = DecodeChar(enc, Unwrap(encoded))
  /\ pc' = "decoded"
  /\ UNCHANGED <<debug, enc, input, vres, offset, item, range, got, ch, encoded,
                 enc2, mode, ptr, total_len, out, ret>>
  /\ UNCHANGED <<bidx, bound, split, clen, lossy, cstr, cself, cother, cargs, cret>>

\* The state of the loop of Str::recode and Str::recode_lossy after one more
\* pass: still looping, or returned
Looping(p, t, o) == [pc |-> "recoding", ptr |-> p, total_len |-> t, out |-> o, ret |-> RetNone]
Returned(p, t, o, r) == [pc |-> "returned", ptr |-> p, total_len |-> t, out |-> o, ret |-> r]

\* a NeedSpace arm that does not count what the pass wrote before it ran out of
\* room
need_space_forgetful(E, str, p, t, e) ==
  IF index(E, SliceFrom(str, p), RangeFrom(e.input_used)).kind = "Panic"
  THEN Returned(p, t, e.out, RetPanic)
  ELSE Looping(p + e.input_used, t, Resize(e.out, Len(str)))

\* the NeedSpace arm, shared by both loops: grow out by the input's length, move
\* ptr to the character that did not fit, keep what was written
need_space(E, str, p, t, e) ==
  IF index(E, SliceFrom(str, p), RangeFrom(e.input_used)).kind = "Panic"
  THEN Returned(p, t, e.out, RetPanic)
  ELSE Looping(p + e.input_used, t + e.output_valid, Resize(e.out, Len(str)))

\* the InvalidChar arm of Str::recode: the error is handed on as it came
invalid_char(e) == RetErr(<<>>, "InvalidChar", e.input_used, e.char, e.len % 256)

\* the match of Str::recode on e, what E2::recode returned
recode_match(E, str, p, t, o, e) ==
  IF e.kind = "Panic" THEN Returned(p, t, o, RetPanic)
  ELSE IF e.kind = "Ok" THEN Returned(p, t, o, RetOk(Slice(e.out, 0, t + e.len)))
  ELSE IF e.kind = "NeedSpace" THEN need_space(E, str, p, t, e)
  ELSE Returned(p, t, e.out, invalid_char(e))

\* one pass of the loop of Str::recode::<E2>
recode_pass(E, E2, str, p, t, o) ==
  recode_match(E, str, p, t, o, Recode(E, E2, SliceFrom(str, p), o, t))

\* the InvalidChar arm of Str::recode_lossy: write REPLACEMENT after what was
\* written, skip `len` input of input past the character
replace_char(E, E2, str, p, t, e) ==
  LET replace_len == CharLen(E2, Replacement(E2))
      grown == Resize(e.out, replace_len)
      at == t + e.output_valid
      w == Encode(E2, Replacement(E2), Len(grown) - at)
  IN  IF w.kind # "Ok" THEN Returned(p, t, grown, RetPanic)
      ELSE IF index(E, SliceFrom(str, p), RangeFrom(e.input_used + e.len)).kind = "Panic"
      THEN Returned(p, t, grown, RetPanic)
      ELSE Looping(p + e.input_used + e.len, at + replace_len, WriteAt(grown, at, w.a))

\* the match of Str::recode_lossy on e, what E2::recode returned
recode_lossy_match(E, E2, str, p, t, o, e) ==
  IF e.kind = "Panic" THEN Returned(p, t, o, RetPanic)
  ELSE IF e.kind = "Ok" THEN Returned(p, t, o, RetOk(Slice(e.out, 0, t + e.len)))
  ELSE IF e.kind = "NeedSpace" THEN need_space(E, str, p, t, e)
  ELSE replace_char(E, E2, str, p, t, e)

\* one pass of the loop of Str::recode_lossy::<E2>
recode_lossy_pass(E, E2, str, p, t, o) ==
  recode_lossy_match(E, E2, str, p, t, o, Recode(E, E2, SliceFrom(str, p), o, t))

\* str.recode::<E2>() and str.recode_lossy::<E2>(), up to their loop
Str_recode ==
  /\ pc = "str"
  /\ \E E2 \in Destinations : enc2' = E2
  /\ mode' = "recode"
  /\ ptr' = 0
  /\ total_len' = 0
  /\ out' = Zeros(Len(input))
  /\ pc' = "recoding"
  /\ UNCHANGED <<debug, enc, input, vres, offset, item, range, got, ch, encoded,
                 decoded, ret>>
  /\ UNCHANGED <<bidx, bound, split, clen, lossy, cstr, cself, cother, cargs, cret>>

Str_recode_lossy ==
  /\ pc = "str"
  /\ \E E2 \in LossyDestinations : enc2' = E2
  /\ mode' = "recode_lossy"
  /\ ptr' = 0
  /\ total_len' = 0
  /\ out' = Zeros(Len(input))
  /\ pc' = "recoding"
  /\ UNCHANGED <<debug, enc, input, vres, offset, item, range, got, ch, encoded,
                 decoded, ret>>
  /\ UNCHANGED <<bidx, bound, split, clen, lossy, cstr, cself, cother, cargs, cret>>

\* one pass of the loop of Str::recode
Str_recode_loop ==
  /\ pc = "recoding"
  /\ mode = "recode"
  /\ \E n \in {recode_pass(enc, enc2, input, ptr, total_len, out)} :
       /\ pc' = n.pc
       /\ ptr' = n.ptr
       /\ total_len' = n.total_len
       /\ out' = n.out
       /\ ret' = n.ret
  /\ UNCHANGED <<debug, enc, input, vres, offset, item, range, got, ch, encoded,
                 decoded, enc2, mode>>
  /\ UNCHANGED <<bidx, bound, split, clen, lossy, cstr, cself, cother, cargs, cret>>

\* one pass of the loop of Str::recode_lossy; not followed past MaxOut
Str_recode_lossy_loop ==
  /\ pc = "recoding"
  /\ mode = "recode_lossy"
  /\ Len(out) <= MaxOut
  /\ \E n \in {recode_lossy_pass(enc, enc2, input, ptr, total_len, out)} :
       /\ pc' = n.pc
       /\ ptr' = n.ptr
       /\ total_len' = n.total_len
       /\ out' = n.out
       /\ ret' = n.ret
  /\ UNCHANGED <<debug, enc, input, vres, offset, item, range, got, ch, encoded,
                 decoded, enc2, mode>>
  /\ UNCHANGED <<bidx, bound, split, clen, lossy, cstr, cself, cother, cargs, cret>>

\* str.recode_into::<E2>(&mut buffer)
Str_recode_into ==
  /\ pc = "str"
  /\ \E E2 \in Destinations, n \in 0..MaxBuffer :
       /\ enc2' = E2
       /\ out' = Zeros(n)
       /\ ret' = recode_into(enc, E2, input, n)
  /\ mode' = "recode_into"
  /\ pc' = "returned"
  /\ UNCHANGED <<debug, enc, input, vres, offset, item, range, got, ch, encoded,
                 decoded, ptr, total_len>>
  /\ UNCHANGED <<bidx, bound, split, clen, lossy, cstr, cself, cother, cargs, cret>>

\* str.is_char_boundary(i), for i up to one past the end
Str_is_char_boundary ==
  /\ pc = "str"
  /\ Len(input) <= MaxIndexLen
  /\ \E i \in 0..(Len(input) + 1) :
       /\ bidx' = i
       /\ bound' = is_char_boundary(enc, input, i)
  /\ pc' = "bound"
  /\ UNCHANGED <<debug, enc, input, vres, offset, item, range, got, ch, encoded,
                 decoded, enc2, mode, ptr, total_len, out, ret>>
  /\ UNCHANGED <<split, clen, lossy, cstr, cself, cother, cargs, cret>>

\* str.split_at(i), for i up to one past the end
Str_split_at ==
  /\ pc = "str"
  /\ Len(input) <= MaxIndexLen
  /\ \E i \in 0..(Len(input) + 1) :
       /\ bidx' = i
       /\ split' = split_at(enc, input, i)
  /\ pc' = "split"
  /\ UNCHANGED <<debug, enc, input, vres, offset, item, range, got, ch, encoded,
                 decoded, enc2, mode, ptr, total_len, out, ret>>
  /\ UNCHANGED <<bound, clen, lossy, cstr, cself, cother, cargs, cret>>

\* E::char_len(ch), after E::encode_char(ch)
char_len ==
  /\ pc \in {"encoded", "unencodable"}
  /\ clen' = CharLen(enc, ch)
  /\ pc' = "measured"
  /\ UNCHANGED <<debug, enc, input, vres, offset, item, range, got, ch, encoded,
                 decoded, enc2, mode, ptr, total_len, out, ret>>
  /\ UNCHANGED <<bidx, bound, split, lossy, cstr, cself, cother, cargs, cret>>

\* a byte buffer has been handed over for a C string in a NullTerminable
\* encoding
InitCStr ==
  /\ Fresh
  /\ enc \in NullTerminable
  /\ pc = "input"
  /\ input \in CBuffers(enc)
  /\ ch = 0

\* CStr::<E>::from_bytes_with_nul(input): a CStr exists from here on only if it
\* returned Ok
CStr_from_bytes_with_nul ==
  /\ pc = "input"
  /\ enc \in NullTerminable
  /\ cstr' = from_bytes_with_nul(enc, input)
  /\ cself' = cstr'.bytes
  /\ pc' = IF cstr'.kind = "Ok" THEN "with_nul" ELSE "with_nul_failed"
  /\ UNCHANGED <<debug, enc, input, vres, offset, item, range, got, ch, encoded,
                 decoded, enc2, mode, ptr, total_len, out, ret>>
  /\ UNCHANGED <<bidx, bound, split, clen, lossy, cother, cargs, cret>>

\* CStr::<E>::from_bytes_til_nul(input)
CStr_from_bytes_til_nul ==
  /\ pc = "input"
  /\ enc \in NullTerminable
  /\ cstr' = from_bytes_til_nul(enc, input)
  /\ cself' = cstr'.bytes
  /\ pc' = IF cstr'.kind = "Ok" THEN "til_nul" ELSE "til_nul_failed"
  /\ UNCHANGED <<debug, enc, input, vres, offset, item, range, got, ch, encoded,
                 decoded, enc2, mode, ptr, total_len, out, ret>>
  /\ UNCHANGED <<bidx, bound, split, clen, lossy, cother, cargs, cret>>

\* a buffer of at most MaxCStrUnits chunks has been handed over for a C string
InitCStrMethods ==
  /\ InitCStr
  /\ input \in CConcats(enc, MaxCStrUnits)

\* cstr.get(idx..) or cstr.get(..); get_mut is the same code
CStr_get ==
  /\ pc \in {"with_nul", "til_nul"}
  /\ \E r \in OpenRanges(Len(cself)) :
       /\ cargs' = <<r>>
       /\ cret' = cstr_get(enc, cself, r)
  /\ pc' = "cstr_get"
  /\ UNCHANGED <<debug, enc, input, vres, offset, item, range, got, ch, encoded,
                 decoded, enc2, mode, ptr, total_len, out, ret>>
  /\ UNCHANGED <<bidx, bound, split, clen, lossy, cstr, cself, cother>>

\* cstr.split_at(i); split_at_mut is the same code
CStr_split_at ==
  /\ pc \in {"with_nul", "til_nul"}
  /\ \E i \in 0..(Len(cself) + 1) :
       /\ cargs' = <<i>>
       /\ cret' = cstr_split_at(enc, cself, i)
  /\ pc' = "cstr_split_at"
  /\ UNCHANGED <<debug, enc, input, vres, offset, item, range, got, ch, encoded,
                 decoded, enc2, mode, ptr, total_len, out, ret>>
  /\ UNCHANGED <<bidx, bound, split, clen, lossy, cstr, cself, cother>>

\* cstr.copy_from(other): self is written only if the call returns
CStr_copy_from ==
  /\ pc \in {"with_nul", "til_nul"}
  /\ \E o \in CStrs(enc) :
       /\ cother' = o
       /\ cargs' = <<>>
       /\ cret' = copy_from(enc, cself, o)
  /\ cself' = IF cret'.kind = "Unit" THEN cret'.cstr ELSE cself
  /\ pc' = "copy_from"
  /\ UNCHANGED <<debug, enc, input, vres, offset, item, range, got, ch, encoded,
                 decoded, enc2, mode, ptr, total_len, out, ret>>
  /\ UNCHANGED <<bidx, bound, split, clen, lossy, cstr>>

\* cstr.copy_range(other, src_range, dest_range): self is written only if the
\* call returns
CStr_copy_range ==
  /\ pc \in {"with_nul", "til_nul"}
  /\ \E o \in CStrs(enc) :
       \E src_range \in Ranges(Len(cself)), dest_range \in Ranges(Len(o)) :
         /\ cother' = o
         /\ cargs' = <<src_range, dest_range>>
         /\ cret' = copy_range(cself, o, src_range, dest_range)
  /\ cself' = IF cret'.kind = "Unit" THEN cret'.cstr ELSE cself
  /\ pc' = "copy_range"
  /\ UNCHANGED <<debug, enc, input, vres, offset, item, range, got, ch, encoded,
                 decoded, enc2, mode, ptr, total_len, out, ret>>
  /\ UNCHANGED <<bidx, bound, split, clen, lossy, cstr>>

\* a null-terminable encoding, and a character to encode or bytes to read
InitNullTerminable ==
  /\ Fresh
  /\ enc \in NullTerminable
  /\ \/ pc = "char" /\ input = <<>> /\ ch \in NulChars
     \/ pc = "input" /\ input \in CBuffers(enc) /\ ch = 0

\* String::<E>::from_bytes_lossy(input)
String_from_bytes_lossy ==
  /\ pc = "input"
  /\ lossy' = from_bytes_lossy(enc, input)
  /\ pc' = IF lossy'.kind = "Panic" THEN "lossy_panic" ELSE "lossy"
  /\ UNCHANGED <<debug, enc, input, vres, offset, item, range, got, ch, encoded, decoded,
                 enc2, mode, ptr, total_len, out, ret>>
  /\ UNCHANGED <<bidx, bound, split, clen, cstr, cself, cother, cargs, cret>>

\* The value of E2::recode(str, out) as the recoding calls' values are held:
\* Ok(len) as the len bytes written, a RecodeError as out[..output_valid],
\* its cause, input_used, and the char and len of the cause
recode_ret(r) ==
  IF r.kind = "Panic" THEN RetPanic
  ELSE IF r.kind = "Ok" THEN RetOk(Slice(r.out, 0, r.len))
  ELSE RetErr(Slice(r.out, 0, r.output_valid), r.kind, r.input_used, r.char, r.len)

\* E2::recode(str, &mut out), out being n zero bytes
Encoding_recode ==
  /\ pc = "str"
  /\ \E E2 \in Destinations, n \in 0..MaxBuffer :
       \E r \in {Recode(enc, E2, input, Zeros(n), 0)} :
         /\ enc2' = E2
         /\ out' = r.out
         /\ ret' = recode_ret(r)
  /\ mode' = "Encoding::recode"
  /\ pc' = "returned"
  /\ UNCHANGED <<debug, enc, input, vres, offset, item, range, got, ch, encoded,
                 decoded, ptr, total_len>>
  /\ UNCHANGED <<bidx, bound, split, clen, lossy, cstr, cself, cother, cargs, cret>>

\* The value of E::encode(char, out) as the recoding calls' values are held:
\* Ok(len) as the bytes out[..len], Err(NeedSpace { len }) or Err(InvalidChar)
encode_ret(e, buf) ==
  IF e.kind = "Ok" THEN RetOk(Slice(buf, 0, e.len))
  ELSE RetErr(<<>>, e.kind, 0, 0, e.len)

\* E::encode(ch, &mut out), out being a filled buffer of n bytes
Encoding_encode ==
  /\ pc = "char"
  /\ \E n \in 0..MaxBuffer :
       \E e \in {Encode(enc, ch, n)} :
         /\ out' = WriteAt(Filled(n), 0, e.a)
         /\ ret' = encode_ret(e, out')
  /\ mode' = "Encoding::encode"
  /\ pc' = "returned"
  /\ UNCHANGED <<debug, enc, input, vres, offset, item, range, got, ch, encoded,
                 decoded, enc2, ptr, total_len>>
  /\ UNCHANGED <<bidx, bound, split, clen, lossy, cstr, cself, cother, cargs, cret>>

\* a lead byte and a second byte for ShiftJIS; ch is the content of the cell
\* of DECODE_MAP_0208 that validate will inspect
InitShiftJISPair ==
  /\ Fresh
  /\ enc = "ShiftJIS"
  /\ pc = "pair"
  /\ input \in {<<lead, trail>> : lead \in ShiftJIS_leads, trail \in 0..255}
  /\ ch \in CellContents

\* ShiftJIS::validate(input) on a lead byte and a second byte, then the cell
\* ShiftJIS::decode_char reads for them: cargs holds the cell validate
\* inspected and the cell decode_char reads
ShiftJIS_validate_pair ==
  /\ pc = "pair"
  /\ cargs' = <<ShiftJIS_validate_cell(ShiftJIS_lead_row(At(input, 0)), At(input, 1)),
                ShiftJIS_decode_cell(At(input, 0), At(input, 1))>>
  /\ vres' = IF ~ShiftJIS_trail_known(At(input, 1)) \/ ch = \hFFFD
             THEN ValidateError(0, Some(2))
             ELSE ValidOk
  /\ pc' = IF vres'.ok THEN "pair_valid" ELSE "pair_invalid"
  /\ UNCHANGED <<debug, enc, input, offset, item, range, got, ch, encoded, decoded,
                 enc2, mode, ptr, total_len, out, ret>>
  /\ UNCHANGED <<bidx, bound, split, clen, lossy, cstr, cself, cother, cret>>

\* a cell of the JIS X 0208 table, held as <<row, col>> in input
InitX0208Cell ==
  /\ Fresh
  /\ enc = "ShiftJIS"
  /\ pc = "cell"
  /\ input \in {<<row, col>> : row \in 0..(X0208_ROWS - 1), col \in 0..(X0208_COLS - 1)}
  /\ ch = 0

\* the row/column arithmetic of ShiftJIS::encode_char on the cell
ShiftJIS_encode_cell_arithmetic ==
  /\ pc = "cell"
  /\ encoded' = Some(ShiftJIS_encode_cell(At(input, 0), At(input, 1)))
  /\ pc' = "cell_encoded"
  /\ UNCHANGED <<debug, enc, input, vres, offset, item, range, got, ch, decoded,
                 enc2, mode, ptr, total_len, out, ret>>
  /\ UNCHANGED <<bidx, bound, split, clen, lossy, cstr, cself, cother, cargs, cret>>

\* the row/column arithmetic of ShiftJIS::decode_char on the two bytes
ShiftJIS_decode_cell_arithmetic ==
  /\ pc = "cell_encoded"
  /\ cargs' = <<ShiftJIS_decode_cell(ShiftJIS_cell_bytes(Unwrap(encoded))[1],
                                     ShiftJIS_cell_bytes(Unwrap(encoded))[2])>>
  /\ pc' = "cell_decoded"
  /\ UNCHANGED <<debug, enc, input, vres, offset, item, range, got, ch, encoded, decoded,
                 enc2, mode, ptr, total_len, out, ret>>
  /\ UNCHANGED <<bidx, bound, split, clen, lossy, cstr, cself, cother, cret>>

\* -------------------------------------------------------- specifications

\* validation only
NextValidate == from_bytes
SpecValidate == Init /\ [][NextValidate]_vars

\* a Str and its character iterator
NextChars == from_bytes \/ CharIndices_next
SpecChars == Init /\ [][NextChars]_vars

\* a Str, Str::get and indexing
NextGet == from_bytes \/ Str_get \/ Str_index
SpecGet == Init /\ [][NextGet]_vars

\* encode_char and decode_char on one character
NextEncode == encode_char \/ decode_char
SpecEncode == InitChar /\ [][NextEncode]_vars

\* a Str and the recoding calls
NextRecode ==
  \/ from_bytes
  \/ Str_recode
  \/ Str_recode_loop
  \/ Str_recode_lossy
  \/ Str_recode_lossy_loop
  \/ Str_recode_into
SpecRecode == Init /\ [][NextRecode]_vars

\* a Str, its character boundaries and Str::split_at
NextBoundary == from_bytes \/ Str_is_char_boundary \/ Str_split_at
SpecBoundary == Init /\ [][NextBoundary]_vars

\* encode_char and char_len on one character
NextCharLen == encode_char \/ char_len
SpecCharLen == InitChar /\ [][NextCharLen]_vars

\* the CStr constructors
NextCStrNew == CStr_from_bytes_with_nul \/ CStr_from_bytes_til_nul
SpecCStrNew == InitCStr /\ [][NextCStrNew]_vars

\* a CStr and its methods
NextCStr ==
  \/ CStr_from_bytes_with_nul
  \/ CStr_from_bytes_til_nul
  \/ CStr_get
  \/ CStr_split_at
  \/ CStr_copy_from
  \/ CStr_copy_range
SpecCStr == InitCStrMethods /\ [][NextCStr]_vars

\* the characters and the zero bytes of the null-terminable encodings
NextNullTerminable == encode_char \/ from_bytes \/ CharIndices_next
SpecNullTerminable == InitNullTerminable /\ [][NextNullTerminable]_vars

\* lossy conversion of a byte buffer
NextLossy == String_from_bytes_lossy
SpecLossy == Init /\ [][NextLossy]_vars

\* a Str and the default Encoding::recode into a buffer
NextEncodingRecode == from_bytes \/ Encoding_recode
SpecEncodingRecode == Init /\ [][NextEncodingRecode]_vars

\* one character encoded into a caller's buffer
NextEncodeInto == Encoding_encode
SpecEncodeInto == InitChar /\ [][NextEncodeInto]_vars

\* the two-byte characters of ShiftJIS and their table cells
NextShiftJISPair == ShiftJIS_validate_pair
SpecShiftJISPair == InitShiftJISPair /\ [][NextShiftJISPair]_vars

\* the cells of the JIS X 0208 table through the arithmetic of ShiftJIS
NextX0208Cell == ShiftJIS_encode_cell_arithmetic \/ ShiftJIS_decode_cell_arithmetic
SpecX0208Cell == InitX0208Cell /\ [][NextX0208Cell]_vars

\* everything that can be done with a byte buffer
Next ==
  \/ from_bytes
  \/ CharIndices_next
  \/ Str_get
  \/ Str_index
  \/ Str_recode
  \/ Str_recode_loop
  \/ Str_recode_lossy
  \/ Str_recode_lossy_loop
  \/ Str_recode_into
  \/ Str_is_char_boundary
  \/ Str_split_at
  \/ String_from_bytes_lossy
Spec == Init /\ [][Next]_vars

\* ------------------------------------------------------------ properties

\* str.char_indices() run to its end: the (index, char) pairs in order, and
\* whether the iterator got to the end without panicking
RECURSIVE char_indices_from(_, _, _)
char_indices_from(E, str, off) ==
  IF off >= Len(str) THEN [ok |-> TRUE, items |-> <<>>]
  ELSE LET d == DecodeChar(E, SliceFrom(str, off)) IN
    IF d.panic THEN [ok |-> FALSE, items |-> <<>>]
    ELSE LET rest == char_indices_from(E, str, off + d.used)
         IN  [ok |-> rest.ok, items |-> <<[idx |-> off, c |-> d.c]>> \o rest.items]

char_indices(E, str) == char_indices_from(E, str, 0)

\* i is where a character of str starts, or the end of str
IsBoundary(E, str, i) ==
  \/ i = Len(str)
  \/ \E k \in DOMAIN char_indices(E, str).items : char_indices(E, str).items[k].idx = i

\* the first byte a range selects, and the byte after the last one
RangeStart(idx) == IF idx.start[1] = "Included" THEN idx.start[2] ELSE 0
RangeEnd(idx, len) ==
  IF idx.end[1] = "Included" THEN idx.end[2] + 1
  ELSE IF idx.end[1] = "Excluded" THEN idx.end[2]
  ELSE len

\* the concatenation of a sequence of byte strings
RECURSIVE Flatten(_)
Flatten(ss) == IF ss = <<>> THEN <<>> ELSE Head(ss) \o Flatten(Tail(ss))

\* str is a sequence of characters, each of which E2 can encode
AllRepresentable(E, E2, str) ==
  LET w == char_indices(E, str) IN
  w.ok /\ \A k \in DOMAIN w.items : IsSome(EncodeChar(E2, w.items[k].c))

\* the characters of str, each as E2::encode_char gives it, or as REPLACEMENT
\* where E2 has no encoding for it
EncodedOrReplaced(E, E2, str) ==
  LET w == char_indices(E, str)
      one(c) == IF IsSome(EncodeChar(E2, c)) THEN Unwrap(EncodeChar(E2, c))
                ELSE Unwrap(EncodeChar(E2, Replacement(E2)))
  IN  Flatten([k \in DOMAIN w.items |-> one(w.items[k].c)])

\* the first character of str E2 cannot encode
FirstUnrepresentable(E, E2, str) ==
  LET w == char_indices(E, str)
      bad == {k \in DOMAIN w.items : ~IsSome(EncodeChar(E2, w.items[k].c))}
      first == CHOOSE k \in bad : \A j \in bad : k <= j
  IN  IF bad = {} THEN [found |-> FALSE, idx |-> 0, c |-> 0]
      ELSE [found |-> TRUE, idx |-> w.items[first].idx, c |-> w.items[first].c]

\* C1: when validate reports an error, its valid_up_to is at most the length of
\* the input, and the input cut at valid_up_to validates.
C1_ValidUpToPrefixValidates ==
  pc = "invalid" =>
    /\ vres.valid_up_to <= Len(input)
    /\ Validate(enc, Slice(input, 0, vres.valid_up_to)).ok

\* C1, the case: a UTF-16 input of odd length that ends in a high surrogate and
\* a stray byte is refused with valid_up_to = 1, in the middle of a unit
C1_OddLengthSurrogate ==
  /\ pc = "invalid"
  /\ enc = "Utf16LE"
  /\ input = <<\h01, \hD8, \h00>>
  /\ vres.valid_up_to = 1
  /\ ~Validate(enc, Slice(input, 0, vres.valid_up_to)).ok

\* C2: iterating the characters of bytes that validate never panics on a read
\* past the end, and consumes the input exactly.
C2_IterationStaysInBounds ==
  /\ pc # "chars_panic"
  /\ offset <= Len(input)
  /\ pc = "chars_end" => offset = Len(input)

\* C2, the case: JisX0208 takes a lone lead byte as valid, and decode_char
\* reads the byte after it
C2_TrailingLeadByte ==
  /\ pc = "chars_panic"
  /\ enc = "JisX0208"
  /\ input = <<\h30>>
  /\ vres.ok

\* C3: Str::get gives Some only for a range that starts and ends on character
\* boundaries; for any other range get gives None and indexing panics.
C3_GetOnlyAtBoundaries ==
  LET bounded == /\ IsBoundary(enc, input, RangeStart(range))
                 /\ IsBoundary(enc, input, RangeEnd(range, Len(input)))
  IN  /\ pc = "get" /\ ~bounded => got.kind = "None"
      /\ pc = "index" /\ ~bounded => got.kind = "Panic"

\* C3, the case: the first byte alone of a two-byte UTF-16 character is handed out
C3_HalfUnit ==
  /\ pc = "get"
  /\ enc = "Utf16LE"
  /\ input = <<\h41, \h00>>
  /\ range = Range(0, 1)
  /\ got = GetSome(<<\h41>>)

\* C4: whatever recode, recode_lossy and recode_into hand back as a string of
\* E2, the valid part of the buffer an error of recode_into carries included,
\* passes E2::validate.
C4_RecodedOutputValidates ==
  pc = "returned" /\ ret.kind \in {"Ok", "Err"} => Validate(enc2, ret.bytes).ok

\* C4, the case: U+0081 is encoded to the byte 0x81, which Win1252::validate
\* refuses
C4_UnassignedByteWritten ==
  /\ pc = "returned"
  /\ enc = "Win1252Loose"
  /\ input = <<\h81>>
  /\ enc2 = "Win1252"
  /\ mode = "recode"
  /\ ret = RetOk(<<\h81>>)
  /\ ~Validate(enc2, ret.bytes).ok

\* C5: the bytes encode_char returns for a character decode to that same
\* character, with nothing left over.
C5_EncodeDecodeRoundTrip ==
  pc = "decoded" =>
    /\ ~decoded.panic
    /\ decoded.c = ch
    /\ decoded.used = Len(Unwrap(encoded))

\* C5, the case: JisX0201 encodes the backslash to 0x5C, which decodes to the
\* yen sign
C5_BackslashBecomesYen ==
  /\ pc = "decoded"
  /\ enc = "JisX0201"
  /\ ch = \h5C
  /\ encoded = Some(<<\h5C>>)
  /\ decoded = Decoded(\hA5, 1)

\* C6: an error of Str::recode names the first character the destination
\* cannot encode: valid_up_to is its offset from the start of the input, char
\* is the character, and the input before valid_up_to recodes without error.
C6_ErrorLocatesFirstBadChar ==
  pc = "returned" /\ mode = "recode" /\ ret.kind = "Err" =>
    LET first == FirstUnrepresentable(enc, enc2, input) IN
    /\ first.found
    /\ ret.valid_up_to = first.idx
    /\ ret.char = first.c
    /\ ret.valid_up_to <= Len(input)
    /\ AllRepresentable(enc, enc2, Slice(input, 0, ret.valid_up_to))

\* C6, the case: after one retry for space the offset reported counts from
\* where the retry began, not from the start of the input
C6_OffsetAfterRetry ==
  /\ pc = "returned"
  /\ enc = "Win1252"
  /\ input = <<\h6E, \h6E, \hE9>>
  /\ enc2 = "JisX0208"
  /\ mode = "recode"
  /\ ret.kind = "Err"
  /\ ret.char = \hE9
  /\ ret.valid_up_to = 1
  /\ ptr = 1

\* C7: in recode_lossy, a pass that meets a character the destination cannot
\* encode goes on with the input moved past that character, by the number of
\* bytes it takes, which is not zero.
C7_LossyPassAdvances ==
  pc = "recoding" /\ mode = "recode_lossy" =>
    LET str == SliceFrom(input, ptr)
        e == Recode(enc, enc2, str, out, total_len)
        n == recode_lossy_pass(enc, enc2, input, ptr, total_len, out)
        width == DecodeChar(enc, SliceFrom(str, e.input_used)).used
    IN  e.kind = "InvalidChar" =>
          /\ n.pc = "recoding"
          /\ width > 0
          /\ n.ptr = ptr + e.input_used + width

\* C7, the case: Win1252::char_len gives 0 for U+00E9, so the loop writes
\* replacement after replacement and the input stays where it was
C7_LossyStuck ==
  /\ pc = "recoding"
  /\ mode = "recode_lossy"
  /\ enc = "Win1252"
  /\ input = <<\hE9>>
  /\ enc2 = "Ascii"
  /\ ptr = 0
  /\ Len(out) > MaxOut
  /\ total_len = MaxOut

\* C8: Str::recode returns, and returns Ok or the error of a character the
\* destination cannot encode; it never panics and never hands on NeedSpace.
C8_RecodeReturnsOkOrInvalidChar ==
  pc = "returned" /\ mode = "recode" =>
    \/ ret.kind = "Ok"
    \/ ret.kind = "Err" /\ ret.cause = "InvalidChar"

\* C8, the case: a Str of JisX0208 that ends in a lone lead byte makes the
\* character iterator inside recode panic
C8_RecodePanics ==
  /\ pc = "returned"
  /\ mode = "recode"
  /\ enc = "JisX0208"
  /\ input = <<\h30>>
  /\ ret = RetPanic

\* C9: what recode_lossy has written is, character by character of the input
\* it has gone through and in order, encode_char of the character or of
\* REPLACEMENT: at every pass of its loop and in what it returns.
C9_LossyOutputInOrder ==
  mode = "recode_lossy" =>
    /\ pc = "recoding" =>
         /\ ptr <= Len(input)
         /\ Slice(out, 0, total_len) = EncodedOrReplaced(enc, enc2, Slice(input, 0, ptr))
    /\ pc = "returned" /\ ret.kind = "Ok" =>
         ret.bytes = EncodedOrReplaced(enc, enc2, input)

\* C9, the case: Win1252::char_len gives 0 for U+00E9, the input stays at that
\* character, and it is replaced a second time while "A" is never reached
C9_ReplacedTwice ==
  /\ pc = "recoding"
  /\ mode = "recode_lossy"
  /\ enc = "Win1252"
  /\ input = <<\hE9, \h41>>
  /\ enc2 = "Ascii"
  /\ ptr = 0
  /\ total_len = 2
  /\ Slice(out, 0, total_len) = <<\h1A, \h1A>>

\* C10: if the destination can encode every character of the input, recode
\* returns Ok with exactly the characters' encode_char bytes in order, no
\* padding after them, however often the buffer had to grow.
C10_RecodeExact ==
  pc = "returned" /\ mode = "recode" /\ AllRepresentable(enc, enc2, input) =>
    ret = RetOk(EncodedOrReplaced(enc, enc2, input))

\* C10, the case: UTF-8 "A", U+10437, "b" to UTF-16LE; 6 bytes become 8, so the
\* buffer had to grow
C10_GrownBuffer ==
  /\ pc = "returned"
  /\ mode = "recode"
  /\ enc = "Utf8"
  /\ input = <<\h41, \hF0, \h90, \h90, \hB7, \h62>>
  /\ enc2 = "Utf16LE"
  /\ ptr > 0
  /\ ret = RetOk(<<\h41, \h00, \h01, \hD8, \h37, \hDC, \h62, \h00>>)

\* C11: for a valid buffer whose characters all decode, is_char_boundary(i) is
\* true exactly when i is 0, the length, or the offset of a character that
\* char_indices yields, and false past the end.
C11_BoundaryIffCharStart ==
  (pc = "bound" /\ char_indices(enc, input).ok) =>
    /\ ~bound.panic
    /\ bound.v <=> (bidx <= Len(input) /\ IsBoundary(enc, input, bidx))

\* C11, the case: a JIS X 0208 string that starts with a control character,
\* asked about the second byte of the two-byte character after it
C11_InsideAfterControl ==
  /\ pc = "bound"
  /\ enc = "JisX0208"
  /\ input = <<\h0A, \h25, \h4F>>
  /\ bidx = 2
  /\ bound = Bound(TRUE)

\* C19: for a valid Str whose characters all decode, split_at(i) returns
\* Some((bytes [0, i), bytes [i, len))) exactly when i is a character boundary,
\* the start and the end of the string included, and None otherwise.
C19_SplitAtEveryBoundary ==
  (pc = "split" /\ char_indices(enc, input).ok) =>
    split = IF bidx <= Len(input) /\ IsBoundary(enc, input, bidx)
            THEN SplitSome(Slice(input, 0, bidx), SliceFrom(input, bidx))
            ELSE SplitNone

\* C19, the case: a one-character string split at its end
C19_SplitAtEnd ==
  /\ pc = "split"
  /\ enc = "Ascii"
  /\ input = <<\h41>>
  /\ bidx = 1
  /\ split = SplitNone

\* C12: char_len(c) is the number of bytes of encode_char(c) when that is Some,
\* and 0 exactly when encode_char(c) is None.
C12_CharLenIsEncodedLength ==
  pc = "measured" =>
    clen = IF IsSome(encoded) THEN Len(Unwrap(encoded)) ELSE 0

\* C12, the case: Win1252 encodes U+00E9 as one byte and gives it length 0
C12_LatinLetterHasNoLength ==
  /\ pc = "measured"
  /\ enc = "Win1252"
  /\ ch = \hE9
  /\ encoded = Some(<<\hE9>>)
  /\ clen = 0

\* the zero bytes of `bytes` in front of its last byte, as 0-based indices
InteriorZeros(bytes) == {i \in 0..(Len(bytes) - 2) : At(bytes, i) = 0}

\* C18: from_bytes_with_nul returns MissingNull when the input is empty or its
\* last byte is not zero, else HasNull with the index of the first zero in
\* front of the last byte, else Invalid with the validation error of the bytes
\* in front of the last, else Ok with the input; it does not panic.
C18_WithNulVerdict ==
  pc \in {"with_nul", "with_nul_failed"} =>
    LET n == Len(input)
        zeros == InteriorZeros(input)
        v == Validate(enc, Slice(input, 0, n - 1))
    IN  IF n = 0 \/ input[n] # 0 THEN cstr = CStrMissingNull
        ELSE IF zeros # {}
        THEN cstr = CStrHasNull(CHOOSE i \in zeros : \A j \in zeros : i <= j)
        ELSE IF ~v.ok THEN cstr = CStrInvalid(v)
        ELSE cstr = CStrOk(input)

\* C18, the case: an interior zero behind bytes that are not valid UTF-8
C18_ZeroBehindInvalid ==
  /\ pc = "with_nul_failed"
  /\ enc = "Utf8"
  /\ input = <<\h80, 0, 0>>
  /\ cstr = CStrHasNull(1)

\* c ends in its only zero byte, and the bytes in front of it are valid for E
WellFormedCStr(E, c) ==
  /\ Len(c) >= 1
  /\ c[Len(c)] = 0
  /\ InteriorZeros(c) = {}
  /\ Validate(E, Slice(c, 0, Len(c) - 1)).ok

\* a CStr method has been called on the CStr made of input
AfterCStrMethod == pc \in {"cstr_get", "cstr_split_at", "copy_from", "copy_range"}

\* C13: after the safe constructors and methods every CStr at hand (self, other,
\* the one get or split_at returned) has exactly one zero byte, at its end, in
\* front of which the bytes are valid for E.
C13_CStrKeepsItsTerminator ==
  (pc \in {"with_nul", "til_nul"} \/ AfterCStrMethod) =>
    /\ WellFormedCStr(enc, cself)
    /\ cother # <<>> => WellFormedCStr(enc, cother)
    /\ cret.kind = "Some" =>
         /\ WellFormedCStr(enc, cret.cstr)
         /\ Validate(enc, cret.str).ok

\* C13, the case: copy_range has written a letter over the terminator of self
C13_TerminatorOverwritten ==
  /\ pc = "copy_range"
  /\ enc = "Ascii"
  /\ cstr.bytes = <<\h41, 0>>
  /\ cother = <<\h41, 0>>
  /\ cargs = <<Range(1, 2), Range(0, 1)>>
  /\ cret.kind = "Unit"
  /\ cself = <<\h41, \h41>>

\* from <= i <= to lies on a character boundary of the string in front of the
\* terminator of the CStr c, or behind the terminator
IsCStrBoundary(E, c, i) ==
  i = Len(c) \/ (i < Len(c) /\ IsBoundary(E, Slice(c, 0, Len(c) - 1), i))

\* what copy_range has to do with `self` = before: the span of other read,
\* the span of self written, and whether it has to panic
copy_range_contract(E, before, other, src_span, dest_span, result, after) ==
  IF /\ IsSome(src_span) /\ IsSome(dest_span)
     /\ Unwrap(src_span)[2] - Unwrap(src_span)[1]
          = Unwrap(dest_span)[2] - Unwrap(dest_span)[1]
     /\ \A k \in 1..2 : /\ IsCStrBoundary(E, other, Unwrap(src_span)[k])
                        /\ IsCStrBoundary(E, before, Unwrap(dest_span)[k])
  THEN /\ result.kind = "Unit"
       /\ after = WriteAt(before, Unwrap(dest_span)[1],
                          Slice(other, Unwrap(src_span)[1], Unwrap(src_span)[2]))
  ELSE /\ result.kind = "Panic"
       /\ after = before

\* C14: copy_range(other, src_range, dest_range) writes the bytes of other in
\* src_range over the bytes of self in dest_range and nothing else; when the
\* ranges differ in length, leave the arrays, or end inside a character, it
\* panics and self is as before.
C14_CopyRangeWritesDestRange ==
  pc = "copy_range" =>
    copy_range_contract(enc, cstr.bytes, cother, slice_get(cother, cargs[1]),
                        slice_get(cstr.bytes, cargs[2]), cret, cself)

\* C14, the case: one byte of a two-byte character of self has been replaced
C14_HalfCharacterWritten ==
  /\ pc = "copy_range"
  /\ enc = "Utf8"
  /\ cstr.bytes = <<\hC3, \hA9, 0>>
  /\ cother = <<\h41, 0>>
  /\ cargs = <<Range(0, 1), Range(0, 1)>>
  /\ cret.kind = "Unit"
  /\ cself = <<\h41, \hA9, 0>>

\* C15: copy_from on two CStrs of one string length returns and leaves self
\* with the bytes of other, terminator included; on different lengths it
\* panics.
C15_CopyFromEqualLengths ==
  pc = "copy_from" =>
    IF Len(cstr.bytes) = Len(cother)
    THEN cret.kind = "Unit" /\ cself = cother
    ELSE cret.kind = "Panic" /\ cself = cstr.bytes

\* C15, the case: copy_from has panicked on two CStrs of one letter each
C15_EqualLengthsPanic ==
  /\ pc = "copy_from"
  /\ enc = "Ascii"
  /\ cstr.bytes = <<\h41, 0>>
  /\ cother = <<\h7F, 0>>
  /\ cret = CRetPanic
  /\ cself = <<\h41, 0>>

\* the 16-bit units of a buffer, a trailing odd byte left out
Utf16Units(bytes, le) ==
  [k \in 1..(Len(bytes) \div 2) |-> U16_from(bytes, 2 * (k - 1), le)]

IsHighSurrogate(u) == InRange(u, \hD800, \hDBFF)
IsLowSurrogate(u) == InRange(u, \hDC00, \hDFFF)

\* the index (from 1) of the first unit at or after k that is not part of a
\* well-formed character: a low surrogate with no high one in front, or a high
\* one with no low one behind; Len(units) + 1 if there is none
RECURSIVE FirstDefect(_, _)
FirstDefect(units, k) ==
  IF k > Len(units) THEN k
  ELSE IF IsLowSurrogate(units[k]) THEN k
  ELSE IF IsHighSurrogate(units[k]) THEN
    IF k < Len(units) /\ IsLowSurrogate(units[k + 1]) THEN FirstDefect(units, k + 2)
    ELSE k
  ELSE FirstDefect(units, k + 1)

\* what validate has to answer for the units of a buffer of len bytes whose
\* first defect is unit k
Utf16Verdict(units, k, len) ==
  IF k > Len(units) THEN
    IF len % 2 = 0 THEN ValidOk ELSE ValidateError(len - 1, None)
  ELSE IF IsHighSurrogate(units[k]) /\ k = Len(units) THEN ValidateError(2 * (k - 1), None)
  ELSE IF IsHighSurrogate(units[k]) /\ IsHighSurrogate(units[k + 1])
    THEN ValidateError(2 * (k - 1), Some(4))
  ELSE ValidateError(2 * (k - 1), Some(2))

\* C17: UTF-16 validate accepts exactly the even-length buffers whose surrogates
\* come in high-low pairs; otherwise valid_up_to is the even offset of the first
\* unit outside a well-formed character, and error_len is None for a high
\* surrogate as last unit or an odd trailing byte, 4 for high-high, 2 for
\* high-other and for a low surrogate on its own.
C17_Utf16Verdict ==
  (pc \in {"str", "invalid"} /\ enc \in {"Utf16LE", "Utf16BE"}) =>
    vres = Utf16Verdict(Utf16Units(input, enc = "Utf16LE"),
                        FirstDefect(Utf16Units(input, enc = "Utf16LE"), 1), Len(input))

\* C17, the case: a high surrogate as last unit, then one more byte; validate
\* answers the odd offset 1
C17_OddOffsetReported ==
  /\ pc = "invalid"
  /\ enc = "Utf16BE"
  /\ input = <<\hD8, \h01, \h00>>
  /\ vres = ValidateError(1, None)

\* C20: under a null-terminable encoding no character but U+0000 is encoded
\* with a zero byte in it, and a zero byte of a valid string is read as U+0000,
\* one byte long.
C20_ZeroByteIsNul ==
  enc \in NullTerminable =>
    /\ (pc = "encoded" /\ ch # 0) => InteriorZeros(Unwrap(encoded) \o <<0>>) = {}
    /\ (pc = "chars" /\ At(input, Unwrap(item)[1]) = 0) =>
         /\ Unwrap(item)[2] = 0
         /\ offset = Unwrap(item)[1] + 1

\* C20, the case: the valid one-byte string 00 has been read as U+0000
C20_NulRead ==
  /\ enc = "Win1251"
  /\ input = <<0>>
  /\ pc = "chars"
  /\ item = Some(<<0, 0>>)
  /\ offset = 1

\* the valid runs of bytes, each invalid sequence validate reports replaced by
\* one encoded REPLACEMENT; an error without a length takes the rest
RECURSIVE Replaced(_, _)
ReplacedAfter(E, bytes, v) ==
  IF v.ok THEN bytes
  ELSE Slice(bytes, 0, v.valid_up_to) \o Flatten(EncodeChar(E, Replacement(E)))
         \o (IF IsSome(v.error_len)
             THEN Replaced(E, SliceFrom(bytes, v.valid_up_to + Unwrap(v.error_len)))
             ELSE <<>>)

Replaced(E, bytes) == ReplacedAfter(E, bytes, Validate(E, bytes))

\* C16: from_bytes_lossy never panics; it returns the input borrowed exactly
\* when the input validates, and otherwise an owned string of the valid runs
\* with one REPLACEMENT for each invalid sequence; what it returns validates.
C16_LossyIsValid ==
  (pc \in {"lossy", "lossy_panic"}) =>
    /\ pc = "lossy"
    /\ lossy.kind = "Borrowed" <=> Validate(enc, input).ok
    /\ lossy.kind = "Borrowed" => lossy.bytes = input
    /\ lossy.kind = "Owned" => lossy.bytes = Replaced(enc, input)
    /\ Validate(enc, lossy.bytes).ok

\* C16, the case: an odd-length UTF-16 input ending in a high surrogate and a
\* stray byte comes back, without debug assertions, as three bytes
C16_OddLengthResult ==
  /\ pc = "lossy"
  /\ ~debug
  /\ enc = "Utf16LE"
  /\ input = <<\h01, \hD8, \h00>>
  /\ lossy = Owned(<<\h01, \hFD, \hFF>>)
  /\ ~Validate(enc, lossy.bytes).ok

\* a 32-bit unit that is a Unicode scalar value
IsScalarValue(u) == u < \h110000 /\ ~(u >= \hD800 /\ u < \hE000)

\* the groups of four bytes (from 0; the last may be shorter) of a buffer that
\* are too short or hold no scalar value
Utf32BadGroups(bytes, le) ==
  {g \in 0..((Len(bytes) + 3) \div 4 - 1) :
     \/ 4 * g + 4 > Len(bytes)
     \/ ~IsScalarValue(U32_from(bytes, 4 * g, le))}

\* what validate has to answer when g is the first bad group
Utf32Verdict(bytes, g) ==
  ValidateError(4 * g, IF 4 * g + 4 > Len(bytes) THEN None ELSE Some(4))

\* C22: UTF-32 validate accepts exactly the buffers made of whole four-byte
\* units that are scalar values; otherwise valid_up_to is four times the index
\* of the first bad group, with error_len Some(4) for a whole unit and None for
\* a short trailing group.
C22_Utf32Verdict ==
  (pc \in {"str", "invalid"} /\ enc \in {"Utf32LE", "Utf32BE"}) =>
    /\ vres.ok <=> (Len(input) % 4 = 0 /\ Utf32BadGroups(input, enc = "Utf32LE") = {})
    /\ ~vres.ok =>
         \E g \in Utf32BadGroups(input, enc = "Utf32LE") :
           /\ \A h \in Utf32BadGroups(input, enc = "Utf32LE") : g <= h
           /\ vres = Utf32Verdict(input, g)

\* C22, the case: a surrogate as second unit is refused at offset 4
C22_SurrogateUnit ==
  /\ pc = "invalid"
  /\ enc = "Utf32LE"
  /\ input = <<\h41, \h00, \h00, \h00, \h00, \hD8, \h00, \h00>>
  /\ vres = ValidateError(4, Some(4))

\* C28: an error of validate lies inside the buffer: valid_up_to is at most
\* the length, and an error_len of Some(n) has n >= 1 and ends at or before
\* the end of the buffer.
C28_ErrorInsideBuffer ==
  pc = "invalid" =>
    /\ vres.valid_up_to <= Len(input)
    /\ IsSome(vres.error_len) =>
         /\ Unwrap(vres.error_len) >= 1
         /\ vres.valid_up_to + Unwrap(vres.error_len) <= Len(input)

\* C28, the case: the lone byte 29 of an unused JIS X 0208 row is reported as
\* an error two bytes long
C28_ErrorPastTheEnd ==
  /\ pc = "invalid"
  /\ enc = "JisX0208"
  /\ input = <<\h29>>
  /\ vres = ValidateError(0, Some(2))

\* the (1-based) first character of items that E2 cannot encode or that no
\* longer fits into room bytes after the ones before it; 0 if all fit
RECURSIVE FirstNotWritten(_, _, _, _)
FirstNotWritten(E2, items, k, room) ==
  IF k > Len(items) THEN 0
  ELSE IF ~IsSome(EncodeChar(E2, items[k].c)) THEN k
  ELSE IF Len(Unwrap(EncodeChar(E2, items[k].c))) > room THEN k
  ELSE FirstNotWritten(E2, items, k + 1, room - Len(Unwrap(EncodeChar(E2, items[k].c))))

\* the encodings in E2 of the first n characters of items, in order
EncodedPrefix(E2, items, n) ==
  Flatten([k \in 1..n |-> Unwrap(EncodeChar(E2, items[k].c))])

\* the bytes the k-th character of items takes in a source of len bytes
SourceLen(items, k, len) ==
  (IF k < Len(items) THEN items[k + 1].idx ELSE len) - items[k].idx

\* what E2::recode has to return for the characters items of a source of len
\* bytes, k being the first character not written
RecodeVerdict(E2, items, k, len) ==
  IF k = 0 THEN RetOk(EncodedPrefix(E2, items, Len(items)))
  ELSE IF IsSome(EncodeChar(E2, items[k].c))
    THEN RetErr(EncodedPrefix(E2, items, k - 1), "NeedSpace", items[k].idx, 0,
                Len(Unwrap(EncodeChar(E2, items[k].c))))
  ELSE RetErr(EncodedPrefix(E2, items, k - 1), "InvalidChar", items[k].idx,
              items[k].c, SourceLen(items, k, len))

\* C21: the default Encoding::recode returns Ok with the bytes of all
\* characters, or an error at the first character not written: input_used is
\* that character's offset, out[..output_valid] holds the characters before
\* it, and the cause is NeedSpace with its encoded length or InvalidChar with
\* the character and its length in the source.
C21_RecodeErrorIsExact ==
  (pc = "returned" /\ mode = "Encoding::recode" /\ ret.kind \in {"Ok", "Err"}) =>
    /\ ret = RecodeVerdict(enc2, char_indices(enc, input).items,
                           FirstNotWritten(enc2, char_indices(enc, input).items, 1, Len(out)),
                           Len(input))
    /\ ret.valid_up_to <= Len(input)

\* C21, the case: the two-byte UTF-16 character U+00E9, which Ascii cannot
\* encode, is reported as one byte long
C21_UnitsForBytes ==
  /\ pc = "returned"
  /\ mode = "Encoding::recode"
  /\ enc = "Utf16LE"
  /\ input = <<\hE9, \h00>>
  /\ enc2 = "Ascii"
  /\ ret = RetErr(<<>>, "InvalidChar", 0, \hE9, 1)

\* the 0-based indices of the zero bytes of a buffer
ZeroBytes(bytes) == {i \in 0..(Len(bytes) - 1) : At(bytes, i) = 0}

\* what from_bytes_til_nul has to return for bytes whose first zero is at p
TilNulVerdict(E, bytes, p) ==
  IF ~Validate(E, Slice(bytes, 0, p)).ok THEN CStrInvalid(Validate(E, Slice(bytes, 0, p)))
  ELSE CStrOk(Slice(bytes, 0, p + 1))

\* C23: from_bytes_til_nul returns MissingNull for bytes without a zero; else,
\* p being the first zero, Invalid with the validation error of bytes[..p] or
\* the CStr bytes[..=p].  The bytes behind p play no part, and it does not
\* panic.
C23_TilNulVerdict ==
  pc \in {"til_nul", "til_nul_failed"} =>
    IF ZeroBytes(input) = {} THEN cstr = CStrMissingNull
    ELSE \E p \in ZeroBytes(input) :
           /\ \A q \in ZeroBytes(input) : p <= q
           /\ cstr = TilNulVerdict(enc, input, p)

\* C23, the case: a CStr of one letter from bytes that go on, after the zero,
\* with a byte that is not valid UTF-8
C23_InvalidBehindNul ==
  /\ pc = "til_nul"
  /\ enc = "Utf8"
  /\ input = <<\h41, 0, \h80>>
  /\ cstr = CStrOk(<<\h41, 0>>)

\* what Encoding::encode has to return and leave in a buffer of n filled bytes,
\* a being encode_char of the character
EncodeVerdict(a, n, result, buf) ==
  IF ~IsSome(a) THEN result = RetErr(<<>>, "InvalidChar", 0, 0, 0) /\ buf = Filled(n)
  ELSE IF Len(Unwrap(a)) > n
    THEN result = RetErr(<<>>, "NeedSpace", 0, 0, Len(Unwrap(a))) /\ buf = Filled(n)
  ELSE /\ result = RetOk(Unwrap(a))
       /\ buf = Unwrap(a) \o Filled(n - Len(Unwrap(a)))

\* C24: Encoding::encode returns InvalidChar when encode_char is None, whatever
\* the size of out, else NeedSpace with the encoded length when that is more
\* than out holds, both with out untouched; else Ok(n) with out[..n] the
\* encoding and out[n..] untouched.
C24_EncodeIntoBuffer ==
  (pc = "returned" /\ mode = "Encoding::encode") =>
    EncodeVerdict(EncodeChar(enc, ch), Len(out), ret, out)

\* C24, the case: the three bytes of U+20AC go into a UTF-8 buffer of four, the
\* fourth byte stays
C24_TailUntouched ==
  /\ pc = "returned"
  /\ mode = "Encoding::encode"
  /\ enc = "Utf8"
  /\ ch = \h20AC
  /\ ret = RetOk(<<\hE2, \h82, \hAC>>)
  /\ out = <<\hE2, \h82, \hAC, \hAA>>

\* C27: for a range whose start a and exclusive end b are character boundaries
\* with a <= b <= len, Str::get returns Some of the bytes from a to b; it
\* neither panics nor returns None, b = 0 and the empty range included.
C27_GetAtBoundaries ==
  (/\ pc = "get"
   /\ RangeStart(range) <= RangeEnd(range, Len(input))
   /\ RangeEnd(range, Len(input)) <= Len(input)
   /\ IsBoundary(enc, input, RangeStart(range))
   /\ IsBoundary(enc, input, RangeEnd(range, Len(input)))) =>
    got = GetSome(Slice(input, RangeStart(range), RangeEnd(range, Len(input))))

\* C27, the case: the whole of a two-byte UTF-8 character is asked for as 0..2
\* and get has nothing to give
C27_WholeCharacterRefused ==
  /\ pc = "get"
  /\ enc = "Utf8"
  /\ input = <<\hC3, \hA9>>
  /\ range = Range(0, 2)
  /\ got = GetNone

\* C25: for a lead byte and a second byte that ShiftJIS::validate accepts as
\* one character, the table cell validate inspected is the cell decode_char
\* reads.
C25_SameCell ==
  pc = "pair_valid" => cargs[1] = cargs[2]

\* C25, the case: for the bytes E0 40 validate inspects row 60 and decode_char
\* reads row 62
C25_OtherRow ==
  /\ pc = "pair_valid"
  /\ input = <<\hE0, \h40>>
  /\ cargs = <<<<60, 0>>, <<62, 0>>>>

\* C26: for every cell of the 94 x 94 table the arithmetic of
\* ShiftJIS::encode_char gives two values that fit in a byte, a lead byte in
\* 81..9F or E0..EF and a second byte in 40..7E or 80..FC, and the arithmetic
\* of ShiftJIS::decode_char gives the cell back.
C26_CellRoundTrip ==
  /\ pc \in {"cell_encoded", "cell_decoded"} =>
       /\ Unwrap(encoded)[1] \in ShiftJIS_leads
       /\ Unwrap(encoded)[2] \in (\h40..\h7E) \cup (\h80..\hFC)
  /\ pc = "cell_decoded" => cargs[1] = input

\* C26, the case: the last cell of the table, (93, 93), is the bytes EF FC and
\* comes back
C26_LastCell ==
  /\ pc = "cell_decoded"
  /\ input = <<93, 93>>
  /\ encoded = Some(<<\hEF, \hFC>>)
  /\ cargs = <<<<93, 93>>>>

\* one step of the character iterator as the claim describes it
IndicesStep ==
  /\ (pc = "str" /\ pc' = "chars") => Unwrap(item')[1] = 0
  /\ (pc = "chars" /\ pc' = "chars") =>
       /\ Unwrap(item')[1] = offset
       /\ Unwrap(item')[1] > Unwrap(item)[1]
  /\ pc' = "chars" =>
       /\ Unwrap(item')[2] = DecodeChar(enc, SliceFrom(input, Unwrap(item')[1])).c
       /\ offset' = Unwrap(item')[1]
                      + DecodeChar(enc, SliceFrom(input, Unwrap(item')[1])).used
  /\ (pc \in {"str", "chars"} /\ pc' \in {"chars_end", "chars_panic"}) =>
       offset = Len(input)
  /\ pc = "chars_end" => pc' = "chars_end"

\* C29: char_indices starts at offset 0 and yields each character decode_char
\* reads with its offset; every offset is the one before plus the bytes
\* decode_char consumed there, so offsets grow; the iteration stops only when
\* the offsets have reached the length of the string, and after None comes
\* None.
C29_IndicesFollowDecode == [][IndicesStep]_vars

\* C29, the case: after the line feed at offset 0 of a JisX0208 string the
\* iteration stops at offset 1 of 2
C29_StopsBeforeTheEnd ==
  /\ pc = "chars_panic"
  /\ enc = "JisX0208"
  /\ input = <<\h0A, \h30>>
  /\ item = Some(<<0, \h0A>>)
  /\ offset = 1

====
